---- MODULE Spec2Model ----
(***************************************************************************)
(* Competitive-intelligence enrichment pipeline (katana111/core).          *)
(*                                                                         *)
(* The module models the parts of the repository, each with its own        *)
(* specification over the shared variables:                                *)
(*   SpecAI       services/ai/news_analyzer.py  (NewsAnalyzer)             *)
(*   SpecNews     the three competitors_news writers                       *)
(*   SpecSteps    one batch of one writer, step by step                    *)
(*   SpecComp     the two competitors writers (ParsersVC, Tracxn)          *)
(*   SpecConn     database/connection.py (get_cursor, transaction)         *)
(*   SpecBatch    the batch enrichment services                            *)
(*   SpecUnified  services/unified_enrichment.py (enrich_all_sources)      *)
(*   SpecExtract  field extraction of the two company scrapers             *)
(*   SpecRetry    the retry loops of the scrapers and of the search agent  *)
(*   SpecSearch   GlobeNewswireScraper.search_company_news                 *)
(*   SpecParallel the source pipelines as tasks of one event loop          *)
(*                                                                         *)
(* Python strings are TLA+ strings; TLC evaluates Len, SubSeq and \o on    *)
(* them, so slicing, searching, splitting and lower-casing are computed    *)
(* character by character as the Python code computes them.                *)
(***************************************************************************)
EXTENDS Integers, Sequences, FiniteSets, TLC

VARIABLES
    aiCall,          \* SpecAI: one analyze_article call: arguments, environment, result
    news,            \* SpecNews: table competitors_news, a sequence of rows (index = id)
    classifier,      \* SpecNews: the remote endpoint's (deterministic) behaviour
    lastRun,         \* SpecNews: history, the last batch run and what it did
    competitors,     \* SpecComp: table competitors, a sequence of rows (index = id)
    lastPass,        \* SpecComp: history, the last enrichment pass and the row before it
    conn,            \* SpecConn: the scope in progress on the connection manager
    pool,            \* SpecConn: connections checked out of the pool and not closed
    connLog,         \* SpecConn: history, the finished scope's calls and outcome
    unified,         \* SpecUnified: one enrich_all_sources call: arguments, tasks, result
    enrich,          \* SpecBatch: one batch enrichment: input list, position, log, summary
    scraper,         \* SpecExtract, SpecRetry, SpecSearch: one scraper call and its result
    eventLoop        \* SpecParallel: the source pipelines under gather and the one that runs

vars == <<aiCall, news, classifier, lastRun,
          competitors, lastPass, conn, pool, connLog, unified, enrich,
          scraper, eventLoop>>

----------------------------------------------------------------------------
(* Python's None and SQL's NULL: a value that may be None is a sequence of  *)
(* length 0 (None) or 1 (the value).                                       *)

None == <<>>

Some(v) == <<v>>

Min(a, b) == IF a < b THEN a ELSE b

Max(a, b) == IF a > b THEN a ELSE b

Abs(a) == IF a < 0 THEN -a ELSE a

----------------------------------------------------------------------------
(* Python str operations *)

UpperAlphabet == "ABCDEFGHIJKLMNOPQRSTUVWXYZ"

LowerAlphabet == "abcdefghijklmnopqrstuvwxyz"

CharAt(s, i) == SubSeq(s, i, i)

UpperChars == {CharAt(UpperAlphabet, i) : i \in 1..26}

LowerOfUpper == [c \in UpperChars |->
                    CharAt(LowerAlphabet, CHOOSE i \in 1..26 : CharAt(UpperAlphabet, i) = c)]

\* str.lower() on one character
LowerChar(c) == IF c \in UpperChars THEN LowerOfUpper[c] ELSE c

RECURSIVE lower(_)
\* s.lower(): every character lower-cased (the string is halved so that the
\* evaluation depth stays logarithmic in its length)
lower(s) ==
    IF Len(s) = 0 THEN ""
    ELSE IF Len(s) = 1 THEN LowerChar(s)
    ELSE lower(SubSeq(s, 1, Len(s) \div 2)) \o lower(SubSeq(s, Len(s) \div 2 + 1, Len(s)))

\* s[:n]
Slice(s, n) == SubSeq(s, 1, Min(n, Len(s)))

\* s.find(sub) + 1: the 1-based place of the first occurrence, 0 when there is none
Find(sub, s) ==
    LET places == {i \in 1..(Len(s) - Len(sub) + 1) : SubSeq(s, i, i + Len(sub) - 1) = sub}
    IN  IF places = {} THEN 0 ELSE CHOOSE i \in places : \A j \in places : i <= j

\* sub in s
Contains(sub, s) ==
    \E i \in 1..(Len(s) - Len(sub) + 1) : SubSeq(s, i, i + Len(sub) - 1) = sub

\* s.endswith(suffix)
EndsWith(s, suffix) ==
    /\ Len(s) >= Len(suffix)
    /\ SubSeq(s, Len(s) - Len(suffix) + 1, Len(s)) = suffix

IsSpace(c) == c \in {" ", "\n", "\t", "\r"}

RECURSIVE lstrip(_)
lstrip(s) == IF Len(s) > 0 /\ IsSpace(CharAt(s, 1)) THEN lstrip(Tail(s)) ELSE s

RECURSIVE rstrip(_)
rstrip(s) ==
    IF Len(s) > 0 /\ IsSpace(CharAt(s, Len(s)))
    THEN rstrip(SubSeq(s, 1, Len(s) - 1)) ELSE s

\* s.strip()
strip(s) == rstrip(lstrip(s))

RECURSIVE split(_, _)
\* s.split(sep): the sequence of pieces, at least one
split(s, sep) ==
    LET i == Find(sep, s)
    IN  IF i = 0 THEN <<s>>
        ELSE <<SubSeq(s, 1, i - 1)>> \o split(SubSeq(s, i + Len(sep), Len(s)), sep)

RECURSIVE join(_, _)
\* sep.join(parts)
join(sep, parts) ==
    IF Len(parts) = 0 THEN ""
    ELSE IF Len(parts) = 1 THEN parts[1]
    ELSE parts[1] \o sep \o join(sep, Tail(parts))

\* sum(1 for k in keywords if k in text)
CountIn(keywords, text) == Cardinality({i \in 1..Len(keywords) : Contains(keywords[i], text)})

\* [x for x in seq if keep(x)], order kept
RECURSIVE SelectIdx(_, _)
SelectIdx(seq, keep) ==
    IF Len(seq) = 0 THEN <<>>
    ELSE (IF 1 \in keep THEN <<seq[1]>> ELSE <<>>)
         \o SelectIdx(Tail(seq), {i - 1 : i \in keep \ {1}})

----------------------------------------------------------------------------
(* services/ai/news_analyzer.py: NewsAnalyzer                              *)
(*                                                                         *)
(* A Python dict is a TLA+ function from its keys; d.get(k, default) is    *)
(* Get.  sentiment_score is kept in hundredths (0.8 is 80, -1.0 is -100).  *)

Get(d, k, default) == IF k \in DOMAIN d THEN d[k] ELSE default

business_keywords ==
    << "funding", "investment", "series", "raised", "million", "billion",
       "acquisition", "acquired", "merger", "bought", "purchase",
       "partnership", "collaboration", "alliance", "agreement", "contract",
       "launch", "released", "announced", "unveil", "introduce",
       "expansion", "growth", "new market", "international",
       "revenue", "profit", "loss", "earnings", "financial results",
       "ipo", "public", "listing", "stock", "shares",
       "ceo", "cto", "cfo", "executive", "leadership", "appointed", "hired",
       "strategy", "roadmap", "vision", "goals", "objectives",
       "product", "feature", "update", "version", "platform",
       "technology", "innovation", "patent", "breakthrough",
       "customer", "client", "user", "adoption", "deployment" >>

irrelevant_indicators ==
    << "event", "conference", "webinar", "speaking at", "will speak",
       "opinion", "commentary", "analysis by", "expert says",
       "industry report", "market research", "survey finds",
       "general", "overall", "market trends", "industry trends" >>

positive_words ==
    << "growth", "success", "launch", "raise", "funding", "partnership",
       "expansion", "innovative", "award", "leading", "breakthrough" >>

negative_words ==
    << "lawsuit", "breach", "hack", "loss", "decline", "failure",
       "shutdown", "layoff", "scandal", "fine", "investigation" >>

\* topic_keywords, in the dict's insertion order
topic_names == << "funding", "product", "partnership", "expansion", "acquisition" >>

topic_keywords ==
    << << "funding", "raise", "investment", "series", "capital" >>,
       << "launch", "product", "feature", "release", "announce" >>,
       << "partnership", "partner", "collaborate", "agreement" >>,
       << "expansion", "growth", "enter", "market", "expand" >>,
       << "acquire", "acquisition", "merger", "buy" >> >>

\* The rule without its second test
LowRelevance_ScoreOnly(relevance_score, irrelevance_score) == relevance_score < 2

\* relevance_score < 2 or irrelevance_score > relevance_score
LowRelevance(relevance_score, irrelevance_score) ==
    relevance_score < 2 \/ irrelevance_score > relevance_score

\* Clean title: the first sentence, when the title has several and it is substantial
CleanTitle(title) ==
    IF Contains(". ", title) /\ Len(split(title, ". ")[1]) > 20
    THEN split(title, ". ")[1] \o "."
    ELSE title

RECURSIVE TakeSubstantial(_, _)
\* the loop over sentences[:3]: stripped sentences longer than 20, at most `room` of them
TakeSubstantial(sentences, room) ==
    IF Len(sentences) = 0 \/ room = 0 THEN <<>>
    ELSE IF Len(strip(sentences[1])) > 20
         THEN <<strip(sentences[1])>> \o TakeSubstantial(Tail(sentences), room - 1)
         ELSE TakeSubstantial(Tail(sentences), room)

MainIdea(title, content) ==
    LET sentences == split(title \o " " \o content, ". ")
        main_idea == join(". ", TakeSubstantial(SubSeq(sentences, 1, Min(3, Len(sentences))), 2))
    IN  IF main_idea # "" /\ ~EndsWith(main_idea, ".") THEN main_idea \o "." ELSE main_idea

\* sentiment and sentiment_score from the keyword counts
Sentiment(pos_count, neg_count) ==
    IF pos_count > neg_count
    THEN [sentiment |-> "positive", sentiment_score |-> Min(80, pos_count * 20)]
    ELSE IF neg_count > pos_count
    THEN [sentiment |-> "negative", sentiment_score |-> Max(-80, -(neg_count * 20))]
    ELSE [sentiment |-> "neutral", sentiment_score |-> 0]

Topics(text) ==
    SelectIdx(topic_names,
              {i \in 1..Len(topic_names) :
                  \E j \in 1..Len(topic_keywords[i]) : Contains(topic_keywords[i][j], text)})

_fallback_analysis(title, content, company_name) ==
    LET text == lower(title \o " " \o content)
        relevance_score == CountIn(business_keywords, text)
        irrelevance_score == CountIn(irrelevant_indicators, text)
        main_idea == MainIdea(title, content)
        pos_count == CountIn(positive_words, text)
        neg_count == CountIn(negative_words, text)
        s == Sentiment(pos_count, neg_count)
        topics == Topics(text)
    IN  IF LowRelevance(relevance_score, irrelevance_score)
        THEN [relevant |-> FALSE,
              reason |-> "Low business relevance (score: " \o ToString(relevance_score)
                         \o ", irrelevance: " \o ToString(irrelevance_score) \o ")",
              title |-> title,
              sentiment |-> "neutral",
              sentiment_score |-> 0]
        ELSE [relevant |-> TRUE,
              title |-> Slice(CleanTitle(title), 255),
              main_idea |-> IF main_idea # "" THEN Slice(main_idea, 1000) ELSE Slice(title, 200),
              sentiment |-> s.sentiment,
              sentiment_score |-> s.sentiment_score,
              key_topics |-> IF Len(topics) > 0
                             THEN SubSeq(topics, 1, Min(5, Len(topics))) ELSE <<"general">>,
              analysis |-> "Press mention detected with " \o s.sentiment
                           \o " sentiment based on keyword analysis.",
              business_impact |-> IF pos_count > 0 \/ neg_count > 0 THEN "medium" ELSE "low"]

(* The remote strategy.  The endpoint's answer is the environment's: a      *)
(* record [status, body, text].  status 0 stands for requests.post raising *)
(* (transport error, timeout); body says whether response.json() parses    *)
(* and holds choices[0].message.content; text is that content.             *)

\* The markdown code fence is three backquotes, which a TLA+ string cannot hold:
\* "~~~" stands for it here and in the response texts below.
Fence == "~~~"

FenceJson == Fence \o "json"

\* content.split('```json')[1].split('```')[0].strip(), and the elif for a bare fence
StripFence(content) ==
    IF Contains(FenceJson, content)
    THEN strip(split(split(content, FenceJson)[2], Fence)[1])
    ELSE IF Contains(Fence, content)
    THEN strip(split(split(content, Fence)[2], Fence)[1])
    ELSE content

\* JSON values: str, num (hundredths), bool, list, obj (a function from keys)
JStr(s) == [t |-> "str", v |-> s]

JNum(n) == [t |-> "num", v |-> n]

JBool(b) == [t |-> "bool", v |-> b]

JList(l) == [t |-> "list", v |-> l]

JObj(f) == [t |-> "obj", v |-> f]

JSONDecodeError == [t |-> "JSONDecodeError"]

\* Message contents the endpoint may send
RespRelevantText ==
    "{\"relevant\": true, \"title\": \"Ab: Closes Series C Funding\", "
    \o "\"main_idea\": \"Ab closed a round.\", \"sentiment\": \"Positive\", "
    \o "\"sentiment_score\": 0.9, \"key_topics\": [\"funding\"], "
    \o "\"analysis\": \"Good for Ab.\", \"business_impact\": \"High\"}"

RespIrrelevantText == "{\"relevant\": false, \"reason\": \"passing mention\"}"

RespEmptyObjectText == "{}"

RespFencedText == FenceJson \o "\n" \o RespRelevantText \o "\n" \o Fence

RespProseText == "Sure! Ab announced new funding and a partnership."

RespFencedProseText == Fence \o "\nAb raised funding\n" \o Fence

RespTitleNumberText == "{\"relevant\": true, \"title\": 5}"

RespScoreWordText == "{\"relevant\": true, \"sentiment_score\": \"high\"}"

RespListText == "[1, 2]"

\* Sentiment scores (hundredths) the endpoint may send, inside and outside [-1.0, 1.0]
ScoreSamples == {-150, -100, -55, -9, 0, 5, 10, 99, 100, 150}

\* A score in hundredths written as a JSON number: -55 is -0.55, 150 is 1.50
DecimalText(n) ==
    (IF n < 0 THEN "-" ELSE "") \o ToString(Abs(n) \div 100) \o "."
    \o ToString((Abs(n) % 100) \div 10) \o ToString(Abs(n) % 10)

\* A relevant answer that carries nothing but a sentiment_score
ScoreText(score) == "{\"relevant\": true, \"sentiment_score\": " \o DecimalText(score) \o "}"

RespScoreHighText == ScoreText(150)

\* json.loads on the texts above; any other text of the model is not JSON
json_loads(text) ==
    CASE text = RespRelevantText ->
            JObj([relevant |-> JBool(TRUE), title |-> JStr("Ab: Closes Series C Funding"),
                  main_idea |-> JStr("Ab closed a round."), sentiment |-> JStr("Positive"),
                  sentiment_score |-> JNum(90), key_topics |-> JList(<<"funding">>),
                  analysis |-> JStr("Good for Ab."), business_impact |-> JStr("High")])
      [] text = RespIrrelevantText ->
            JObj([relevant |-> JBool(FALSE), reason |-> JStr("passing mention")])
      [] text = RespEmptyObjectText -> JObj(<<>>)
      [] text = RespTitleNumberText -> JObj([relevant |-> JBool(TRUE), title |-> JNum(500)])
      [] text = RespScoreWordText ->
            JObj([relevant |-> JBool(TRUE), sentiment_score |-> JStr("high")])
      [] text = RespListText -> JList(<<1, 2>>)
      [] text \in {ScoreText(score) : score \in ScoreSamples} ->
            JObj([relevant |-> JBool(TRUE),
                  sentiment_score |-> JNum(CHOOSE score \in ScoreSamples :
                                               ScoreText(score) = text)])
      [] OTHER -> JSONDecodeError

\* Python truthiness of a JSON value (not x)
Truthy(j) ==
    CASE j.t = "bool" -> j.v
      [] j.t = "num" -> j.v # 0
      [] j.t = "str" -> j.v # ""
      [] j.t = "list" -> Len(j.v) > 0
      [] OTHER -> FALSE

\* The dict built under "Validate and normalize" raises when a value has no
\* slice, no .lower() or no float(): TypeError, AttributeError, ValueError
NormalizeRaises(analysis) ==
    \/ Get(analysis, "title", JStr("")).t \notin {"str", "list"}
    \/ Get(analysis, "main_idea", JStr("")).t \notin {"str", "list"}
    \/ Get(analysis, "sentiment", JStr("")).t # "str"
    \/ Get(analysis, "sentiment_score", JNum(0)).t \notin {"num", "bool"}
    \/ Get(analysis, "key_topics", JList(<<>>)).t \notin {"str", "list"}
    \/ Get(analysis, "analysis", JStr("")).t \notin {"str", "list"}
    \/ Get(analysis, "business_impact", JStr("")).t # "str"

\* float(x) of a JSON number or bool, in hundredths
Float(j) == IF j.t = "bool" THEN (IF j.v THEN 100 ELSE 0) ELSE j.v

\* The value of the local variable `content` when control reaches a fallback call:
\* the article body, until line 104 rebinds it to the message content and
\* lines 107-110 to the text inside the fence.
ContentAtFallback(content, resp) ==
    IF resp.status = 200 /\ resp.body = "message" THEN StripFence(resp.text) ELSE content

\* The try block from requests.post to the return: [raised, value]
RemoteAttempt(title, resp) ==
    IF resp.status = 0 THEN [raised |-> TRUE]                  \* requests.post raised
    ELSE IF resp.status # 200 THEN [raised |-> FALSE, non200 |-> TRUE]
    ELSE IF resp.body # "message" THEN [raised |-> TRUE]       \* response.json(), result[...]
    ELSE LET parsed == json_loads(StripFence(resp.text))
         IN  IF parsed.t # "obj" THEN [raised |-> TRUE]        \* json.loads, analysis.get
             ELSE LET analysis == parsed.v
                  IN  IF ~Truthy(Get(analysis, "relevant", JBool(TRUE)))
                      THEN [raised |-> FALSE, non200 |-> FALSE,
                            value |-> [relevant |-> FALSE,
                                       reason |-> Get(analysis, "reason",
                                                      JStr("Not business-relevant")).v,
                                       title |-> title,
                                       sentiment |-> "neutral",
                                       sentiment_score |-> 0]]
                      ELSE IF NormalizeRaises(analysis) THEN [raised |-> TRUE]
                      ELSE [raised |-> FALSE, non200 |-> FALSE,
                            value |-> [relevant |-> TRUE,
                                       title |-> Slice(Get(analysis, "title", JStr(title)).v, 255),
                                       main_idea |-> Slice(Get(analysis, "main_idea", JStr("")).v, 1000),
                                       sentiment |-> lower(Get(analysis, "sentiment", JStr("neutral")).v),
                                       sentiment_score |-> Float(Get(analysis, "sentiment_score", JNum(0))),
                                       key_topics |-> LET k == Get(analysis, "key_topics", JList(<<>>)).v
                                                      IN  SubSeq(k, 1, Min(10, Len(k))),
                                       analysis |-> Slice(Get(analysis, "analysis", JStr("")).v, 1000),
                                       business_impact |-> lower(Get(analysis, "business_impact",
                                                                     JStr("medium")).v)]]

analyze_article(title, content, company_name, api_key, resp) ==
    IF ~api_key THEN _fallback_analysis(title, content, company_name)
    ELSE LET r == RemoteAttempt(title, resp)
         IN  IF r.raised \/ r.non200
             THEN _fallback_analysis(title, ContentAtFallback(content, resp), company_name)
             ELSE r.value

----------------------------------------------------------------------------
(* The inputs of the ingestion runs: scraped articles, press mentions, the *)
(* seeded competitors table, and the analyzer the writers were built with. *)

\* A row of competitors; every column but id (the row's place), created_at, updated_at.
\* categories is the column ParsersVC's update writes; a new row has it NULL.
\* founded_year and employee_qty hold the text of what the driver sent (the column
\* types are not in the source): 2017 and '2017' are both "2017".
CompetitorRow(name, website, address, email, pricing, founded_year, funding_stage, fundings_total, employee_qty, founders, score) ==
    [name |-> name, website |-> website, address |-> address, email |-> email,
     pricing |-> pricing, founded_year |-> founded_year, funding_stage |-> funding_stage,
     fundings_total |-> fundings_total, employee_qty |-> employee_qty,
     founders |-> founders, score |-> score, categories |-> None]

MaxRows == 2

MaxBatch == 2

RelevantContent == "Ab announced a new partnership and product launch."

Articles ==
    {[title |-> "Funding announced", content |-> RelevantContent, url |-> "u2",
      date |-> "Jan 7, 2024"],
     [title |-> "Ab: Funding announced", content |-> RelevantContent, url |-> "u3",
      date |-> "2024-01-05"],
     [title |-> "Ab to speak at a conference", content |-> "Opinion: market trends.",
      url |-> "u2", date |-> "soon"]}

\* parsers.vc press mentions carry no url (scraper.py sets 'url': '')
Mentions ==
    {[title |-> "Ab raises funding", content |-> RelevantContent, url |-> "",
      date |-> "05.01.2024"],
     [title |-> "Ab product update", content |-> "Ab released a new product version.",
      url |-> "", date |-> "05.01.2024"],
     [title |-> "Ab to speak at a conference", content |-> "", url |-> "", date |-> ""]}

\* Lists of at most MaxBatch elements of S
RECURSIVE ListsUpTo(_, _)
ListsUpTo(S, n) ==
    IF n = 0 THEN {<<>>}
    ELSE LET shorter == ListsUpTo(S, n - 1)
         IN  shorter \cup {Append(l, x) : l \in {k \in shorter : Len(k) = n - 1}, x \in S}

SeedCompetitors ==
    << CompetitorRow("Ab", "ab.io", None, None, None, None, None, None, None, None, 0),
       CompetitorRow("Cd Labs", "cd.com", None, None, None, None, None, None, None, None, 0) >>

\* Company names the batch services are called with
CallNames == {"Ab", "Zz"}

\* How the writers were built (analyze_news) and how the endpoint behaves
Classifiers ==
    {[analyze_news |-> FALSE, api_key |-> FALSE, resp |-> [status |-> 0, body |-> "none", text |-> ""]],
     [analyze_news |-> TRUE, api_key |-> FALSE, resp |-> [status |-> 0, body |-> "none", text |-> ""]],
     [analyze_news |-> TRUE, api_key |-> TRUE,
      resp |-> [status |-> 200, body |-> "message", text |-> RespRelevantText]],
     [analyze_news |-> TRUE, api_key |-> TRUE,
      resp |-> [status |-> 200, body |-> "message", text |-> RespEmptyObjectText]]}

RECURSIVE Repeat(_, _)
\* s * n
Repeat(s, n) == IF n = 0 THEN "" ELSE s \o Repeat(s, n - 1)

\* A scraped title longer than the 255 characters of the title cap (279)
LongTitle == Repeat("Ab opens an office in Rome and ", 9)

\* The article of the end-to-end scenario
AcmeArticle ==
    [title |-> "Acme raises $50M",
     content |-> "Acme Corp today announced it has raised $50M in Series C funding "
                 \o "led by ExampleVC.",
     url |-> "u9", date |-> "2024-01-05"]

\* Scraped articles for the single-batch specification: the scenario's, one
\* with a long title, one whose title does not name the company, one with no
\* sentiment word, one that is not business news
StepArticles ==
    {AcmeArticle,
     [title |-> LongTitle, content |-> RelevantContent, url |-> "u8", date |-> ""],
     [title |-> "Funding announced", content |-> RelevantContent, url |-> "u2",
      date |-> "Jan 7, 2024"],
     [title |-> "Acme names new chiefs", content |-> "Acme appointed a new ceo and cto.",
      url |-> "u7", date |-> ""],
     [title |-> "Ab to speak at a conference", content |-> "Opinion: market trends.",
      url |-> "u2", date |-> "soon"]}

StepCompetitors ==
    << CompetitorRow("Ab", "ab.io", None, None, None, None, None, None, None, None, 0),
       CompetitorRow("Acme Corp", "acme.com", None, None, None, None, None, None, None, None, 0) >>

StepClassifiers ==
    {[analyze_news |-> FALSE, api_key |-> FALSE, resp |-> [status |-> 0, body |-> "none", text |-> ""]],
     [analyze_news |-> TRUE, api_key |-> FALSE, resp |-> [status |-> 0, body |-> "none", text |-> ""]],
     [analyze_news |-> TRUE, api_key |-> TRUE,
      resp |-> [status |-> 200, body |-> "message", text |-> RespRelevantText]]}
    \cup {[analyze_news |-> TRUE, api_key |-> TRUE,
           resp |-> [status |-> 200, body |-> "message", text |-> ScoreText(score)]] :
              score \in ScoreSamples}

\* analyze_article is a function of its arguments and the endpoint's answer; its
\* value on every input of the model (an article's title, whole or cut to 255
\* characters, with that article's content), computed once
AnalysisMemo ==
    [cls \in Classifiers \cup StepClassifiers |->
        [text \in {<<a.title, a.content>> : a \in Articles \cup Mentions \cup StepArticles}
                  \cup {<<Slice(a.title, 255), a.content>> :
                            a \in Articles \cup Mentions \cup StepArticles} |->
            [company_name \in CallNames
                              \cup {SeedCompetitors[i].name : i \in 1..Len(SeedCompetitors)}
                              \cup {StepCompetitors[i].name : i \in 1..Len(StepCompetitors)} |->
                analyze_article(text[1], text[2], company_name, cls.api_key, cls.resp)]]]

----------------------------------------------------------------------------
(* The competitors_news writers.  A table is a sequence of rows, a row's   *)
(* place in it is its id.  Each save operation is an operator from the     *)
(* table to [table, saved]: the table after it and what it returned.       *)

\* database/config.py: the connection's collation utf8mb4_unicode_ci compares
\* strings without regard to case or trailing spaces.  SQL's `a = b`:
RECURSIVE RTrimSpaces(_)
RTrimSpaces(s) ==
    IF Len(s) > 0 /\ CharAt(s, Len(s)) = " " THEN RTrimSpaces(SubSeq(s, 1, Len(s) - 1)) ELSE s

SqlEq(a, b) == lower(RTrimSpaces(a)) = lower(RTrimSpaces(b))

\* SQL's `a LIKE '%b%'` under the same collation
SqlLikeContains(a, b) == Contains(lower(b), lower(a))

\* datetime.now() formatted; the clock is not modelled
Now == "NOW"

\* dateutil's parse on the date strings of the model: [ok, date (YYYY-MM-DD)]
DateutilParse(date_str) ==
    CASE date_str = "2024-01-05" -> [ok |-> TRUE, date |-> "2024-01-05"]
      [] date_str = "05.01.2024" -> [ok |-> TRUE, date |-> "2024-05-01"]
      [] date_str = "Jan 7, 2024" -> [ok |-> TRUE, date |-> "2024-01-07"]
      [] OTHER -> [ok |-> FALSE]

\* The analyzer the writers hold: None when analyze_news is False, else a
\* NewsAnalyzer whose endpoint behaves as `cls` says
HasAnalyzer(cls) == cls.analyze_news

AnalyzeWith(cls, title, content, company_name) ==
    AnalysisMemo[cls][<<title, content>>][company_name]

\* The grade without its clamp to 1..10
GradeFromScore_NoClamp(sentiment_score) == Abs(sentiment_score) \div 10

\* min(10, max(1, int(abs(sentiment_score) * 10))), the score in hundredths
GradeFromScore(sentiment_score) == Min(10, Max(1, Abs(sentiment_score) \div 10))

NewsRow(competitor_id, title, date, link, analysis, importance_grade, sentiment) ==
    [competitor_id |-> competitor_id, title |-> title, date |-> date, link |-> link,
     analysis |-> analysis, importance_grade |-> importance_grade, sentiment |-> sentiment]

\* What a save operation did for one article, in the order it did it: the
\* analyzer call, the duplicate SELECT, the INSERT; `title` is the title the
\* step was given, `outcome` what it answered (relevant, found, inserted)
Step(step, title, outcome) == [step |-> step, title |-> title, outcome |-> outcome]

(* services/biometricupdate/db_operations.py *)

BU_parse_date(date_str) ==
    IF date_str = "" THEN None
    ELSE IF DateutilParse(date_str).ok THEN Some(DateutilParse(date_str).date) ELSE Some(Now)

\* SELECT id FROM competitors_news WHERE competitor_id = %s AND (title = %s OR link = %s)
BU_Duplicate(table, competitor_id, title, url) ==
    \E i \in 1..Len(table) :
        /\ table[i].competitor_id = competitor_id
        /\ (SqlEq(table[i].title, title) \/ SqlEq(table[i].link, url))

BU_save_article(table, cls, competitor_id, company_name, article) ==
    LET title == Slice(article.title, 255)
        content == article.content
        url == article.url
        useAI == HasAnalyzer(cls) /\ content # ""
        published_date == BU_parse_date(article.date)
        Save(analysis_result) ==
            LET cleaned_title == IF useAI THEN Slice(Get(analysis_result, "title", title), 255)
                                 ELSE title
                main_idea == IF useAI THEN Get(analysis_result, "main_idea", content)
                             ELSE IF Len(content) > 500 THEN Slice(content, 500) \o "..."
                             ELSE content
                sentiment == IF useAI THEN Get(analysis_result, "sentiment", "neutral")
                             ELSE "neutral"
                analysis_text == IF useAI THEN Get(analysis_result, "analysis", "")
                                 ELSE "BiometricUpdate article about " \o company_name
                importance_grade == IF useAI
                                    THEN GradeFromScore(Get(analysis_result, "sentiment_score", 0))
                                    ELSE 5
                relevant == Get(analysis_result, "relevant", TRUE)
                found == BU_Duplicate(table, competitor_id, cleaned_title, url)
                analyzed == IF useAI THEN <<Step("classify", title, relevant)>> ELSE <<>>
                checked == analyzed \o <<Step("duplicate_check", cleaned_title, found)>>
            IN  IF useAI /\ ~relevant
                THEN [table |-> table, saved |-> FALSE, steps |-> analyzed]
                ELSE IF found
                THEN [table |-> table, saved |-> FALSE, steps |-> checked]
                ELSE [table |-> Append(table,
                                NewsRow(competitor_id, cleaned_title, published_date, url,
                                        main_idea \o "\n\n" \o analysis_text,
                                        importance_grade, sentiment)),
                      saved |-> TRUE,
                      steps |-> checked \o <<Step("insert", cleaned_title, TRUE)>>]
    IN  Save(AnalyzeWith(cls, title, content, company_name))

(* services/globenewswire/db_operations.py *)

\* A variant of _article_exists that compares the title only, as the press
\* mention writer does: C1 does not hold of it
GN_article_exists_TitleOnly(table, competitor_id, title, url) ==
    \E i \in 1..Len(table) :
        /\ table[i].competitor_id = competitor_id
        /\ SqlEq(table[i].title, title)

GN_article_exists(table, competitor_id, title, url) ==
    \E i \in 1..Len(table) :
        /\ table[i].competitor_id = competitor_id
        /\ (SqlEq(table[i].title, title) \/ SqlEq(table[i].link, url))

\* The title stored: the analysis's (or the article's) title, with the company
\* name put before it when it does not mention the company
GN_final_title(useAI, analysis, title, company_name) ==
    LET company_focused_title == IF useAI THEN Get(analysis, "title", title) ELSE title
        mentions == Contains(lower(company_name), lower(company_focused_title))
    IN  IF useAI /\ company_focused_title = title /\ mentions THEN company_focused_title
        ELSE IF company_name # "Unknown" /\ ~mentions
        THEN company_name \o ": " \o company_focused_title
        ELSE company_focused_title

\* Convert business impact to importance grade
GN_importance(business_impact) ==
    IF business_impact = "high" THEN 5 ELSE IF business_impact = "medium" THEN 3 ELSE 1

GN_published_date(date_str) ==
    IF date_str # "" /\ DateutilParse(date_str).ok
    THEN Some(DateutilParse(date_str).date \o " 00:00:00") ELSE Some(Now)

GN_save_article(table, cls, competitor_id, article_data) ==
    LET title == article_data.title
        url == article_data.url
        company_name == article_data.competitor_name
        useAI == HasAnalyzer(cls)
        Save(analysis) ==
            LET final_title == GN_final_title(useAI, analysis, title, company_name)
                main_idea == Get(analysis, "main_idea", "No summary available")
                company_analysis == Get(analysis, "analysis", "")
                company_focused_analysis ==
                    IF ~useAI THEN "Article about " \o company_name \o ": " \o title
                    ELSE IF company_name # "Unknown"
                    THEN "Impact on " \o company_name \o ": " \o company_analysis
                         \o "\n\nKey Details: " \o main_idea
                    ELSE main_idea \o "\n\nAnalysis: " \o company_analysis
                sentiment == IF useAI THEN Get(analysis, "sentiment", "neutral") ELSE "neutral"
                importance == IF useAI
                              THEN GN_importance(Get(analysis, "business_impact", "medium"))
                              ELSE 3
                relevant == Get(analysis, "relevant", TRUE)
                checked == <<Step("duplicate_check", title, FALSE)>>
                analyzed == IF useAI THEN checked \o <<Step("classify", title, relevant)>>
                            ELSE checked
            IN  IF useAI /\ ~relevant
                THEN [table |-> table, saved |-> FALSE, steps |-> analyzed]
                ELSE [table |-> Append(table,
                                NewsRow(competitor_id, final_title,
                                        GN_published_date(article_data.date), url,
                                        company_focused_analysis, importance, sentiment)),
                      saved |-> TRUE,
                      steps |-> analyzed \o <<Step("insert", final_title, TRUE)>>]
    IN  IF GN_article_exists(table, competitor_id, title, url)
        THEN [table |-> table, saved |-> FALSE,
              steps |-> <<Step("duplicate_check", title, TRUE)>>]
        ELSE Save(AnalyzeWith(cls, title, article_data.content, company_name))

(* services/parsersvc/db_operations.py *)

PV_parse_date(date_str) ==
    IF date_str = "" THEN None
    ELSE IF DateutilParse(date_str).ok THEN Some(DateutilParse(date_str).date) ELSE None

\* SELECT id FROM competitors_news WHERE competitor_id = %s AND title = %s
PV_Duplicate(table, competitor_id, title) ==
    \E i \in 1..Len(table) :
        /\ table[i].competitor_id = competitor_id
        /\ SqlEq(table[i].title, title)

\* One turn of the loop of _save_press_mentions
PV_save_mention(table, cls, competitor_id, company_name, mention) ==
    LET title == Slice(mention.title, 255)
        content == mention.content
        useAI == HasAnalyzer(cls)
        parsed == PV_parse_date(mention.date)
        published_date == IF parsed = None THEN Some(Now) ELSE parsed
        Save(analysis_result) ==
            LET cleaned_title == IF useAI THEN Slice(Get(analysis_result, "title", title), 255)
                                 ELSE title
                main_idea == IF useAI THEN Get(analysis_result, "main_idea", content) ELSE content
                sentiment == IF useAI THEN Get(analysis_result, "sentiment", "neutral")
                             ELSE "neutral"
                analysis_text == IF useAI THEN Get(analysis_result, "analysis", "")
                                 ELSE "Press mention: " \o title
                importance_grade == IF useAI
                                    THEN GradeFromScore(Get(analysis_result, "sentiment_score", 0))
                                    ELSE 5
                relevant == Get(analysis_result, "relevant", TRUE)
                found == PV_Duplicate(table, competitor_id, cleaned_title)
                analyzed == IF useAI THEN <<Step("classify", title, relevant)>> ELSE <<>>
                checked == analyzed \o <<Step("duplicate_check", cleaned_title, found)>>
            IN  IF useAI /\ ~relevant
                THEN [table |-> table, saved |-> FALSE, steps |-> analyzed]
                ELSE IF found
                THEN [table |-> table, saved |-> FALSE, steps |-> checked]
                ELSE [table |-> Append(table,
                                NewsRow(competitor_id, cleaned_title, published_date, mention.url,
                                        main_idea \o "\n\n" \o analysis_text,
                                        importance_grade, sentiment)),
                      saved |-> TRUE,
                      steps |-> checked \o <<Step("insert", cleaned_title, TRUE)>>]
    IN  Save(AnalyzeWith(cls, title, content, company_name))

----------------------------------------------------------------------------
(* The batch operations of the writers.  `comps` is the competitors table. *)

\* SELECT ... LIMIT 1: the id of the first row among the matching ids, 0 when none
FirstMatch(ids) ==
    IF ids = {} THEN 0 ELSE CHOOSE i \in ids : \A j \in ids : i <= j

\* BiometricUpdateDataOperations._get_competitor_by_name: exact, LIKE, LOWER LIKE
BU_get_competitor_by_name(comps, company_name) ==
    LET exact == {i \in 1..Len(comps) : SqlEq(comps[i].name, company_name)}
        like == {i \in 1..Len(comps) : SqlLikeContains(comps[i].name, company_name)}
    IN  IF FirstMatch(exact) # 0 THEN FirstMatch(exact) ELSE FirstMatch(like)

RECURSIVE BU_loop(_, _, _, _, _)
\* the for loop of save_company_articles: [table, saved, skipped]
BU_loop(table, cls, competitor_id, competitor_name, articles) ==
    IF Len(articles) = 0 THEN [table |-> table, saved |-> 0, skipped |-> 0, steps |-> <<>>]
    ELSE LET Count(one, rest) ==
                 [table |-> rest.table,
                  saved |-> rest.saved + (IF one.saved THEN 1 ELSE 0),
                  skipped |-> rest.skipped + (IF one.saved THEN 0 ELSE 1),
                  steps |-> <<one.steps>> \o rest.steps]
             Then(one) ==
                 Count(one, BU_loop(one.table, cls, competitor_id, competitor_name,
                                    Tail(articles)))
         IN  Then(BU_save_article(table, cls, competitor_id, competitor_name, articles[1]))

BU_save_company_articles(table, comps, cls, company_name, articles) ==
    LET competitor_id == BU_get_competitor_by_name(comps, company_name)
    IN  IF Len(articles) = 0
        THEN [table |-> table, total |-> 0, saved |-> 0, skipped |-> 0, found |-> FALSE,
              steps |-> <<>>, error |-> Some("No articles provided")]
        ELSE IF competitor_id = 0
        THEN [table |-> table, total |-> Len(articles), saved |-> 0,
              skipped |-> Len(articles), found |-> FALSE, steps |-> <<>>,
              error |-> Some("Competitor \"" \o company_name \o "\" not found in database")]
        ELSE LET Result(r) == [table |-> r.table, total |-> Len(articles), saved |-> r.saved,
                                skipped |-> r.skipped, found |-> TRUE, steps |-> r.steps,
                                error |-> None]
             IN  Result(BU_loop(table, cls, competitor_id, comps[competitor_id].name, articles))

\* GlobeNewswireDataOperations.get_competitor_by_name: LOWER(name) = LOWER(%s)
GN_get_competitor_by_name(comps, name) ==
    FirstMatch({i \in 1..Len(comps) : SqlEq(lower(comps[i].name), lower(name))})

RECURSIVE GN_loop(_, _, _, _, _)
\* the for loop of save_competitor_news: [table, saved]
GN_loop(table, cls, competitor_id, competitor_name, articles) ==
    IF Len(articles) = 0 THEN [table |-> table, saved |-> 0, steps |-> <<>>]
    ELSE LET article == articles[1] @@ [competitor_name |-> competitor_name]
             Count(one, rest) ==
                 [table |-> rest.table, saved |-> rest.saved + (IF one.saved THEN 1 ELSE 0),
                  steps |-> <<one.steps>> \o rest.steps]
             Then(one) ==
                 Count(one, GN_loop(one.table, cls, competitor_id, competitor_name,
                                    Tail(articles)))
         IN  Then(GN_save_article(table, cls, competitor_id, article))

GN_save_competitor_news(table, comps, cls, competitor_name, articles) ==
    LET competitor_id == GN_get_competitor_by_name(comps, competitor_name)
    IN  IF competitor_id = 0
        THEN [table |-> table, total |-> Len(articles), saved |-> 0,
              skipped |-> Len(articles), found |-> FALSE, steps |-> <<>>,
              message |-> "Competitor " \o competitor_name \o " not found in database"]
        ELSE LET Result(r) == [table |-> r.table, total |-> Len(articles), saved |-> r.saved,
                                skipped |-> Len(articles) - r.saved, found |-> TRUE,
                                steps |-> r.steps,
                                message |-> "Saved " \o ToString(r.saved) \o "/"
                                            \o ToString(Len(articles)) \o " articles for "
                                            \o competitor_name]
             IN  Result(GN_loop(table, cls, competitor_id, competitor_name, articles))

RECURSIVE PV_loop(_, _, _, _, _)
\* the for loop of _save_press_mentions: [table, saved]
PV_loop(table, cls, competitor_id, company_name, mentions) ==
    IF Len(mentions) = 0 THEN [table |-> table, saved |-> 0, steps |-> <<>>]
    ELSE LET Count(one, rest) ==
                 [table |-> rest.table, saved |-> rest.saved + (IF one.saved THEN 1 ELSE 0),
                  steps |-> <<one.steps>> \o rest.steps]
             Then(one) ==
                 Count(one, PV_loop(one.table, cls, competitor_id, company_name, Tail(mentions)))
         IN  Then(PV_save_mention(table, cls, competitor_id, company_name, mentions[1]))

\* A variant of _save_press_mentions that replaces the competitor's rows by the new ones
PV_save_press_mentions_Refresh(table, cls, competitor_id, company_name, mentions) ==
    LET kept == SelectIdx(table, {i \in 1..Len(table) : table[i].competitor_id # competitor_id})
        Result(r) == [table |-> r.table, total |-> Len(mentions), saved |-> r.saved,
                      skipped |-> Len(mentions) - r.saved, found |-> TRUE, steps |-> r.steps]
    IN  Result(PV_loop(kept, cls, competitor_id, company_name, mentions))

PV_save_press_mentions(table, cls, competitor_id, company_name, mentions) ==
    LET Result(r) == [table |-> r.table, total |-> Len(mentions), saved |-> r.saved,
                      skipped |-> Len(mentions) - r.saved, found |-> TRUE, steps |-> r.steps]
    IN  Result(PV_loop(table, cls, competitor_id, company_name, mentions))

----------------------------------------------------------------------------
(* SpecAI: one call of NewsAnalyzer.analyze_article.  Init draws the       *)
(* arguments, whether OPENROUTER_API_KEY is set, and the endpoint's answer;*)
(* Analyze makes the call.                                                 *)

CompanyNames == {"Ab"}

AITitles == {"Ab raises funding", "Ab to speak at a conference", LongTitle}

AIContents ==
    {"Ab announced a new partnership and product launch. More to come",
     "Opinion: market trends.",
     "Opinion: overall market trends for funding and growth event.",
     "Opinion: overall growth.",
     ""}

MessageTexts ==
    {RespRelevantText, RespIrrelevantText, RespEmptyObjectText, RespFencedText,
     RespProseText, RespFencedProseText, RespTitleNumberText, RespScoreWordText,
     RespListText, RespScoreHighText}

Responses ==
    {[status |-> 0, body |-> "none", text |-> ""],
     [status |-> 500, body |-> "none", text |-> ""],
     [status |-> 200, body |-> "invalid", text |-> ""],
     [status |-> 200, body |-> "no_choices", text |-> ""]}
    \cup {[status |-> 200, body |-> "message", text |-> t] : t \in MessageTexts}

NoCall == [done |-> FALSE]

IdleNews ==
    /\ news = <<>>
    /\ classifier = "none"
    /\ lastRun = [src |-> "none"]

IdleComp ==
    /\ competitors = <<>>
    /\ lastPass = [op |-> "none"]

IdleConn ==
    /\ conn = [pc |-> "idle"]
    /\ pool = 0
    /\ connLog = [scope |-> "none"]

IdleAI == aiCall = NoCall

IdleEnrich ==
    /\ unified = [pc |-> "idle"]
    /\ enrich = [pc |-> "idle"]
    /\ scraper = [pc |-> "idle"]
    /\ eventLoop = [pc |-> "idle"]

InitAI ==
    /\ \E title \in AITitles, content \in AIContents, company_name \in CompanyNames,
          api_key \in BOOLEAN, resp \in Responses :
          aiCall = [done |-> FALSE, title |-> title, content |-> content,
                    company_name |-> company_name, api_key |-> api_key, resp |-> resp]
    /\ IdleNews /\ IdleComp /\ IdleConn /\ IdleEnrich

Analyze ==
    /\ ~aiCall.done
    /\ aiCall' = [aiCall EXCEPT !.done = TRUE] @@
                 [result |-> analyze_article(aiCall.title, aiCall.content,
                                             aiCall.company_name, aiCall.api_key, aiCall.resp)]
    /\ UNCHANGED <<eventLoop, scraper, unified, enrich, news, classifier, lastRun, competitors, lastPass,
                   conn, pool, connLog>>

NextAI == Analyze

SpecAI == InitAI /\ [][NextAI]_vars

\* The remote call failed: transport error, non-200 status, or a body or message
\* that does not parse into the expected dict
RemoteFailed(title, resp) ==
    LET r == RemoteAttempt(title, resp) IN r.raised \/ r.non200

(* C10: when the remote call fails (transport error, non-200 status, JSON  *)
(* that does not parse or has fields of the wrong type), analyze_article   *)
(* returns exactly _fallback_analysis of the title, body and company name  *)
(* it was called with.  Violated: after line 104 `content` is the          *)
(* endpoint's message, and that is what the fallback is given.             *)
C10_FallbackOnCallArguments ==
    (aiCall.done /\ aiCall.api_key /\ RemoteFailed(aiCall.title, aiCall.resp))
        => aiCall.result = _fallback_analysis(aiCall.title, aiCall.content, aiCall.company_name)

\* The two scores of the local strategy, counted as the claim words them
RelevanceScore(title, content) == CountIn(business_keywords, lower(title \o " " \o content))

IrrelevanceScore(title, content) ==
    CountIn(irrelevant_indicators, lower(title \o " " \o content))

(* C11: the local strategy classifies an article irrelevant exactly when   *)
(* relevance_score < 2 or irrelevance_score > relevance_score, the scores  *)
(* being the numbers of business keywords and of irrelevance indicators    *)
(* that occur in the lower-cased title and body; so 2 or more keywords     *)
(* with no indicator is relevant, and 0 or 1 keywords is irrelevant.       *)
C11_RelevanceGating ==
    (aiCall.done /\ ~aiCall.api_key) =>
        LET Gate(rel, irr) ==
                /\ ~aiCall.result.relevant <=> (rel < 2 \/ irr > rel)
                /\ (rel >= 2 /\ irr = 0) => aiCall.result.relevant
                /\ rel <= 1 => ~aiCall.result.relevant
        IN  Gate(RelevanceScore(aiCall.title, aiCall.content),
                 IrrelevanceScore(aiCall.title, aiCall.content))

\* An article with two business keywords and more indicators than keywords,
\* classified irrelevant by the local strategy
C11_Witness ==
    /\ aiCall.done /\ ~aiCall.api_key
    /\ RelevanceScore(aiCall.title, aiCall.content) >= 2
    /\ IrrelevanceScore(aiCall.title, aiCall.content)
           > RelevanceScore(aiCall.title, aiCall.content)
    /\ ~aiCall.result.relevant

(* C12: every result of analyze_article has sentiment_score in [-1.0, 1.0] *)
(* (-100..100 in hundredths).  Violated: the remote strategy returns       *)
(* float(analysis['sentiment_score']) as the endpoint sent it.             *)
C12_SentimentScoreInRange ==
    aiCall.done => (aiCall.result.sentiment_score >= -100
                    /\ aiCall.result.sentiment_score <= 100)

(* C13: every result of analyze_article has a title of at most 255         *)
(* characters, main_idea and analysis of at most 1000 characters and at    *)
(* most 10 key_topics.  Violated: an irrelevant result carries the title   *)
(* as it was passed in.                                                     *)
C13_OutputCaps ==
    aiCall.done =>
        /\ Len(aiCall.result.title) <= 255
        /\ aiCall.result.relevant =>
                /\ Len(aiCall.result.main_idea) <= 1000
                /\ Len(aiCall.result.analysis) <= 1000
                /\ Len(aiCall.result.key_topics) <= 10

----------------------------------------------------------------------------
(* SpecNews: ingestion runs of the three sources over a seeded competitors *)
(* table.  A run is one call of save_company_articles (BiometricUpdate),   *)
(* save_competitor_news (GlobeNewswire) or _save_press_mentions            *)
(* (ParsersVC).  lastRun is history: a run may be marked, and a marked run *)
(* is then made once more with the same arguments (Rerun).                 *)

NoRun == [src |-> "none", who |-> "", articles |-> <<>>, saved |-> 0, skipped |-> 0,
          before |-> 0, repeat |-> FALSE, firstSaved |-> 0]

\* One run of source `src` for company `who` over `articles`
RunOf(table, comps, cls, src, who, articles) ==
    CASE src = "biometricupdate" -> BU_save_company_articles(table, comps, cls, who, articles)
      [] src = "globenewswire" -> GN_save_competitor_news(table, comps, cls, who, articles)
      [] src = "parsersvc" ->
            PV_save_press_mentions(table, cls, FirstMatch({i \in 1..Len(comps) : comps[i].name = who}),
                                   who, articles)

InitNews ==
    /\ news = <<>>
    /\ classifier \in Classifiers
    /\ lastRun = NoRun
    /\ competitors = SeedCompetitors
    /\ lastPass = [op |-> "none"]
    /\ IdleAI /\ IdleConn /\ IdleEnrich

Ran(src, who, articles, mark) ==
    /\ lastRun.src = "none"
    /\ Len(news) < MaxRows
    /\ \E r \in {RunOf(news, competitors, classifier, src, who, articles)} :
        /\ news' = r.table
        /\ lastRun' = IF mark
                      THEN [src |-> src, who |-> who, articles |-> articles, saved |-> r.saved,
                            skipped |-> r.skipped, before |-> Len(news), repeat |-> FALSE,
                            firstSaved |-> r.saved]
                      ELSE NoRun
    /\ UNCHANGED <<eventLoop, scraper, unified, enrich, aiCall, classifier, competitors, lastPass, conn, pool, connLog>>

SaveCompanyArticles ==
    \E company_name \in CallNames, articles \in ListsUpTo(Articles, MaxBatch), mark \in BOOLEAN :
        Ran("biometricupdate", company_name, articles, mark)

SaveCompetitorNews ==
    \E competitor_name \in CallNames, articles \in ListsUpTo(Articles, MaxBatch), mark \in BOOLEAN :
        Ran("globenewswire", competitor_name, articles, mark)

SavePressMentions ==
    \E competitor_id \in 1..Len(competitors), mentions \in ListsUpTo(Mentions, MaxBatch),
       mark \in BOOLEAN :
        Ran("parsersvc", competitors[competitor_id].name, mentions, mark)

\* The marked run made a second time, with the same arguments
Rerun ==
    /\ lastRun.src # "none"
    /\ ~lastRun.repeat
    /\ \E r \in {RunOf(news, competitors, classifier, lastRun.src, lastRun.who,
                        lastRun.articles)} :
        /\ news' = r.table
        /\ lastRun' = [lastRun EXCEPT !.saved = r.saved, !.skipped = r.skipped,
                                      !.before = Len(news), !.repeat = TRUE]
    /\ UNCHANGED <<eventLoop, scraper, unified, enrich, aiCall, classifier, competitors, lastPass, conn, pool, connLog>>

NextNews == SaveCompanyArticles \/ SaveCompetitorNews \/ SavePressMentions \/ Rerun

SpecNews == InitNews /\ [][NextNews]_vars

(* C1: a second run over the identical list inserts no row: it saves 0,    *)
(* skips every article, and leaves the row count as the first run left it. *)
C1_RerunSavesNothing ==
    lastRun.repeat =>
        /\ lastRun.saved = 0
        /\ lastRun.skipped = Len(lastRun.articles)
        /\ Len(news) = lastRun.before

\* A list whose first run inserted rows has been run a second time
C1_Witness == lastRun.repeat /\ lastRun.firstSaved > 0 /\ lastRun.saved = 0

(* C2: no two competitors_news rows of one competitor have the same title, *)
(* and no two have the same link.  Violated: ParsersVC checks the title    *)
(* only, and GlobeNewswire checks the scraped title but stores another.    *)
C2_TitleAndLinkUnique ==
    \A i, j \in 1..Len(news) :
        (i # j /\ news[i].competitor_id = news[j].competitor_id)
            => (news[i].title # news[j].title /\ news[i].link # news[j].link)

----------------------------------------------------------------------------
(* SpecSteps: one batch of one writer on an empty competitors_news table,  *)
(* with the steps each article went through recorded in lastRun.steps (one *)
(* sequence of steps per article, in the order of the list).               *)

MaxStepBatch == 2

NoSteps == [src |-> "none", who |-> "", articles |-> <<>>, saved |-> 0, steps |-> <<>>]

InitSteps ==
    /\ news = <<>>
    /\ classifier \in StepClassifiers
    /\ lastRun = NoSteps
    /\ competitors = StepCompetitors
    /\ lastPass = [op |-> "none"]
    /\ aiCall = [done |-> FALSE]
    /\ conn = [pc |-> "idle"]
    /\ pool = 0
    /\ connLog = [scope |-> "none"]
    /\ IdleEnrich

Batch(src, who, articles) ==
    /\ lastRun.src = "none"
    /\ \E r \in {RunOf(news, competitors, classifier, src, who, articles)} :
        /\ news' = r.table
        /\ lastRun' = [src |-> src, who |-> who, articles |-> articles, saved |-> r.saved,
                       steps |-> r.steps]
    /\ UNCHANGED <<eventLoop, scraper, unified, enrich, aiCall, classifier, competitors, lastPass, conn, pool, connLog>>

StepSaveCompanyArticles ==
    \E competitor_id \in 1..Len(competitors), articles \in ListsUpTo(StepArticles, MaxStepBatch) :
        Batch("biometricupdate", competitors[competitor_id].name, articles)

StepSaveCompetitorNews ==
    \E competitor_id \in 1..Len(competitors), articles \in ListsUpTo(StepArticles, MaxStepBatch) :
        Batch("globenewswire", competitors[competitor_id].name, articles)

StepSavePressMentions ==
    \E competitor_id \in 1..Len(competitors), mentions \in ListsUpTo(StepArticles, MaxStepBatch) :
        Batch("parsersvc", competitors[competitor_id].name, mentions)

NextSteps == StepSaveCompanyArticles \/ StepSaveCompetitorNews \/ StepSavePressMentions

SpecSteps == InitSteps /\ [][NextSteps]_vars

(* C14: every row inserted into competitors_news has a title of at most    *)
(* 255 characters.  Violated: GlobeNewswire stores final_title, the        *)
(* scraped or analysed title with the company name put before it, uncut.   *)
C14_TitleAtMost255 == \A i \in 1..Len(news) : Len(news[i].title) <= 255

(* C15: every importance_grade written to competitors_news is an integer   *)
(* in [1, 10]: the grade derived from any sentiment_score, the default     *)
(* without analysis, and the grade mapped from business_impact.            *)
C15_GradeInRange == \A i \in 1..Len(news) : news[i].importance_grade \in 1..10

\* A row whose grade was derived from a sentiment_score of 1.5 and is 10
C15_Witness ==
    /\ lastRun.src \in {"biometricupdate", "parsersvc"}
    /\ classifier.api_key
    /\ classifier.resp.text = ScoreText(150)
    /\ \E i \in 1..Len(news) : news[i].importance_grade = 10

(* C16: the article "Acme raises $50M" for company "Acme Corp" is          *)
(* classified relevant by the local strategy, with sentiment positive and  *)
(* "funding" among its key_topics; saving it into an empty table inserts   *)
(* exactly one row, for the competitor named "Acme Corp", with an          *)
(* importance_grade greater than 5.  Violated: the grade is 4              *)
(* (BiometricUpdate) or 3 (GlobeNewswire).                                 *)
C16_AcmeScenario ==
    (/\ lastRun.src \in {"biometricupdate", "globenewswire"}
     /\ lastRun.who = "Acme Corp"
     /\ lastRun.articles = <<AcmeArticle>>
     /\ classifier.analyze_news /\ ~classifier.api_key) =>
        LET Scenario(analysis) ==
                /\ analysis.relevant
                /\ analysis.sentiment = "positive"
                /\ \E k \in 1..Len(analysis.key_topics) : analysis.key_topics[k] = "funding"
                /\ Len(news) = 1
                /\ competitors[news[1].competitor_id].name = "Acme Corp"
                /\ news[1].importance_grade > 5
        IN  Scenario(_fallback_analysis(AcmeArticle.title, AcmeArticle.content, "Acme Corp"))

(* C20: for every article the steps occur in the order relevance           *)
(* classification, duplicate check, insert; the duplicate check is made on *)
(* the title that is stored; and nothing is inserted for an article        *)
(* classified irrelevant or found duplicate.  Violated: GlobeNewswire      *)
(* checks for a duplicate first, on the scraped title, and classifies      *)
(* after.                                                                   *)
C20_StepOrder ==
    \A n \in 1..Len(lastRun.steps) :
        LET s == lastRun.steps[n]
            Rank(step) == CASE step = "classify" -> 1
                            [] step = "duplicate_check" -> 2
                            [] step = "insert" -> 3
        IN  /\ \A a, b \in 1..Len(s) : a < b => Rank(s[a].step) < Rank(s[b].step)
            /\ \A a, b \in 1..Len(s) :
                   (s[a].step = "duplicate_check" /\ s[b].step = "insert")
                       => s[a].title = s[b].title
            /\ \A a, b \in 1..Len(s) :
                   s[b].step = "insert" =>
                       /\ s[a].step = "classify" => s[a].outcome
                       /\ s[a].step = "duplicate_check" => ~s[a].outcome

----------------------------------------------------------------------------
(* The competitors writers: services/parsersvc/db_operations.py            *)
(* (ParsersVCDataOperations) and services/tracxn/db_operations.py          *)
(* (CompetitorDB).  Money is in whole dollars.                             *)

Digits == "0123456789"

IsDigit(c) == \E i \in 1..Len(Digits) : CharAt(Digits, i) = c

DigitValue(c) == (CHOOSE i \in 1..Len(Digits) : CharAt(Digits, i) = c) - 1

AllDigits(s) == Len(s) > 0 /\ \A i \in 1..Len(s) : IsDigit(CharAt(s, i))

RECURSIVE DecimalValue(_)
DecimalValue(s) ==
    IF Len(s) = 0 THEN 0
    ELSE 10 * DecimalValue(SubSeq(s, 1, Len(s) - 1)) + DigitValue(CharAt(s, Len(s)))

RECURSIVE Pow10(_)
Pow10(n) == IF n = 0 THEN 1 ELSE 10 * Pow10(n - 1)

\* int(s) on a string: Some(n), or None where Python raises ValueError
int(s) == IF AllDigits(strip(s)) THEN Some(DecimalValue(strip(s))) ELSE None

\* A dict with no key, and the dict {k: v}
EmptyDict == [k \in {} |-> None]

Entry(k, v) == k :> v

\* json.dumps of a list of strings
json_dumps(list) ==
    "[" \o join(", ", [i \in 1..Len(list) |-> "\"" \o list[i] \o "\""]) \o "]"

(* ParsersVCDataOperations *)

\* _convert_funding_to_numeric: the scraper hands a float or None
_convert_funding_to_numeric(funding_str) == funding_str

\* _parse_employee_range: the midpoint of "50-100", the number of "75", else None
_parse_employee_range(employee_str) ==
    IF employee_str = "" THEN None
    ELSE IF Contains("-", employee_str)
    THEN LET parts == split(employee_str, "-")
             low == int(strip(parts[1]))
             high == int(strip(parts[2]))
         IN  IF low = None \/ high = None THEN None ELSE Some((low[1] + high[1]) \div 2)
    ELSE int(strip(employee_str))

\* _get_existing_competitor: the six queries in order, each LIMIT 1; the row's id, or 0
_get_existing_competitor(comps, website) ==
    LET exact(w) == FirstMatch({i \in 1..Len(comps) : SqlEq(comps[i].website, w)})
        like == FirstMatch({i \in 1..Len(comps) : SqlLikeContains(comps[i].website, website)})
        tries == << exact(website), exact("https://" \o website), exact("http://" \o website),
                    exact("https://www." \o website), exact("www." \o website), like >>
        hits == {i \in 1..Len(tries) : tries[i] # 0}
    IN  IF hits = {} THEN 0 ELSE tries[CHOOSE i \in hits : \A j \in hits : i <= j]

\* A variant of the funding comparison that always writes the scraped total
FundingMerge_TakeNew(new_funding, existing_funding) ==
    IF new_funding # None THEN Entry("fundings_total", new_funding[1]) ELSE EmptyDict

\* Total raised - compare with existing and keep higher value: the entry written
FundingMerge(new_funding, existing_funding) ==
    IF new_funding # None /\ existing_funding # None
    THEN Entry("fundings_total", Max(new_funding[1], existing_funding[1]))
    ELSE IF new_funding # None THEN Entry("fundings_total", new_funding[1])
    ELSE EmptyDict

\* int(scraped_data['founded_year']) raises ValueError
MapRaises(scraped_data) ==
    scraped_data.founded_year # "" /\ int(scraped_data.founded_year) = None

\* _map_scraped_to_competitor: the dict of the columns to write.  `existing` is
\* Some(row) or None.
_map_scraped_to_competitor(scraped_data, existing) ==
    LET employee_qty == _parse_employee_range(scraped_data.employees)
        new_funding == _convert_funding_to_numeric(scraped_data.total_raised)
        existing_funding == IF existing # None THEN existing[1].fundings_total ELSE None
    IN  (IF scraped_data.location # "" THEN Entry("address", scraped_data.location)
         ELSE EmptyDict)
        @@ (IF employee_qty # None THEN Entry("employee_qty", employee_qty[1]) ELSE EmptyDict)
        @@ (IF scraped_data.founded_year # ""
            THEN Entry("founded_year", int(scraped_data.founded_year)[1]) ELSE EmptyDict)
        @@ (IF Len(scraped_data.categories) > 0
            THEN Entry("categories", json_dumps(scraped_data.categories)) ELSE EmptyDict)
        @@ FundingMerge(new_funding, existing_funding)
        @@ Entry("updated_at", Now)

\* The columns of the model's competitors rows, and those of the table it leaves out
Columns ==
    {"name", "website", "address", "email", "pricing", "founded_year", "funding_stage",
     "fundings_total", "employee_qty", "founders", "score", "categories"}

TimestampColumns == {"created_at", "updated_at"}

\* What a column holds after `SET key = %s` with a value
ColumnValue(key, value) ==
    IF key \in {"name", "website", "score"} THEN value
    ELSE IF key \in {"founded_year", "employee_qty"} THEN Some(ToString(value))
    ELSE Some(value)

\* A variant of _update_competitor without the exclusion of website and name
_update_competitor_AllKeys(comps, competitor_id, data) ==
    [table |-> [comps EXCEPT ![competitor_id] =
                    [col \in DOMAIN @ |->
                        IF col \in DOMAIN data THEN ColumnValue(col, data[col]) ELSE @[col]]],
     ok |-> TRUE, raised |-> FALSE]

\* _update_competitor: [table, ok, raised]: the table after it, what it returned,
\* whether the UPDATE raised (a key that is no column)
_update_competitor(comps, competitor_id, data) ==
    LET fields == DOMAIN data \ {"website", "name"}
    IN  IF DOMAIN data = {} \/ fields = {}
        THEN [table |-> comps, ok |-> FALSE, raised |-> FALSE]
        ELSE IF ~(fields \subseteq Columns \cup TimestampColumns)
        THEN [table |-> comps, ok |-> FALSE, raised |-> TRUE]
        ELSE IF competitor_id \notin 1..Len(comps)
        THEN [table |-> comps, ok |-> FALSE, raised |-> FALSE]
        ELSE [table |-> [comps EXCEPT ![competitor_id] =
                            [col \in DOMAIN @ |->
                                IF col \in fields THEN ColumnValue(col, data[col])
                                ELSE @[col]]],
              ok |-> TRUE, raised |-> FALSE]

\* ParsersVCDataOperations.save_competitor: [comps, table, ok, id, updated]: the two
\* tables after it, what it returned, the id of the row it found (0: none), and
\* whether the UPDATE affected a row.  The call is made later than the row's
\* updated_at, so the UPDATE of a row it finds changes at least that column
PV_save_competitor(comps, table, cls, scraped_data) ==
    LET website == scraped_data.website
        found == _get_existing_competitor(comps, website)
        Fail(id) == [comps |-> comps, table |-> table, ok |-> FALSE, id |-> id,
                     updated |-> FALSE]
        news_after ==
            IF Len(scraped_data.press_mentions) > 0
            THEN PV_save_press_mentions(table, cls, found, comps[found].name,
                                        scraped_data.press_mentions).table
            ELSE table
        Finish(updated) ==
            IF updated.raised THEN Fail(found)
            ELSE [comps |-> updated.table, table |-> news_after,
                  ok |-> updated.ok \/ Len(scraped_data.press_mentions) > 0, id |-> found,
                  updated |-> updated.ok]
    IN  IF website = "" THEN Fail(0)
        ELSE IF found = 0 THEN Fail(0)
        ELSE IF MapRaises(scraped_data) THEN Fail(found)
        ELSE Finish(_update_competitor(comps, found,
                        _map_scraped_to_competitor(scraped_data, Some(comps[found]))))

\* The result r of save_competitor when it is called within the second of the
\* row's updated_at: an UPDATE that
\* sets the values the row holds affects no row (cursor.rowcount is 0, the
\* connection is opened without the FOUND_ROWS flag) and _update_competitor
\* returns False
PV_save_competitor_same_second(comps, scraped_data, r) ==
    IF r.updated /\ r.comps = comps /\ Len(scraped_data.categories) = 0
    THEN [r EXCEPT !.updated = FALSE, !.ok = Len(scraped_data.press_mentions) > 0]
    ELSE r

(* CompetitorDB *)

\* The first match of \$?([\d.]+)([MBK]?) in funding_str, case ignored:
\* [found, amount (the text of group 1), unit (group 2, upper-cased)]
FundingMatch(funding_str) ==
    LET NumChar(c) == IsDigit(c) \/ c = "."
        starts == {i \in 1..Len(funding_str) : NumChar(CharAt(funding_str, i))}
        first == CHOOSE i \in starts : \A j \in starts : i <= j
        ends == {j \in first..Len(funding_str) :
                    /\ \A k \in first..j : NumChar(CharAt(funding_str, k))
                    /\ (j = Len(funding_str) \/ ~NumChar(CharAt(funding_str, j + 1)))}
        last == CHOOSE j \in ends : TRUE
        next == IF last < Len(funding_str) THEN CharAt(funding_str, last + 1) ELSE ""
        unit == IF next \in {"M", "B", "K", "m", "b", "k"}
                THEN CHOOSE u \in {"M", "B", "K"} : lower(u) = lower(next) ELSE ""
    IN  IF starts = {} THEN [found |-> FALSE]
        ELSE [found |-> TRUE, amount |-> SubSeq(funding_str, first, last), unit |-> unit]

\* float(amount) * multiplier in whole dollars: Some(n), or None where float raises
\* ValueError (no digit, or more than one point)
AmountTimes(amount, multiplier) ==
    LET parts == split(amount, ".")
        whole == parts[1]
        frac == IF Len(parts) = 2 THEN parts[2] ELSE ""
    IN  IF Len(parts) > 2 \/ (whole = "" /\ frac = "")
            \/ (whole # "" /\ ~AllDigits(whole)) \/ (frac # "" /\ ~AllDigits(frac))
        THEN None
        ELSE Some(((DecimalValue(whole) * Pow10(Len(frac)) + DecimalValue(frac)) * multiplier)
                  \div Pow10(Len(frac)))

UnitMultiplier(unit) ==
    CASE unit = "B" -> 1000000000 [] unit = "M" -> 1000000 [] unit = "K" -> 1000 [] OTHER -> 1

\* float(match.group(1)) raises ValueError
TX_MapRaises(scraped_data) ==
    LET funding_str == scraped_data.fundings.total_funding
        match == FundingMatch(funding_str)
    IN  funding_str # "" /\ match.found /\ AmountTimes(match.amount, 1) = None

\* _map_scraped_data_to_competitor
_map_scraped_data_to_competitor(scraped_data) ==
    LET company_name == scraped_data.company_name
        website == IF scraped_data.website = "" /\ Contains("SEON", company_name)
                   THEN "seon.io" ELSE scraped_data.website
        funding_str == scraped_data.fundings.total_funding
        match == FundingMatch(funding_str)
        fundings_total ==
            IF funding_str # "" /\ match.found
            THEN AmountTimes(match.amount, UnitMultiplier(match.unit)) ELSE None
        OrNone(v) == IF v = "" THEN None ELSE Some(v)
    IN  [name |-> company_name,
         website |-> OrNone(website),
         address |-> IF scraped_data.registered_address # "" THEN scraped_data.registered_address
                     ELSE IF scraped_data.main_office # "" THEN scraped_data.main_office
                     ELSE scraped_data.location,
         email |-> None,
         pricing |-> None,
         founded_year |-> OrNone(scraped_data.founded_year),
         funding_stage |-> OrNone(scraped_data.funding_stage),
         fundings_total |-> fundings_total,
         employee_qty |-> OrNone(scraped_data.employee_count),
         founders |-> None,
         score |-> 0]

\* _competitor_exists: SELECT id FROM competitors WHERE name = %s LIMIT 1; 0: none
_competitor_exists(comps, name) ==
    FirstMatch({i \in 1..Len(comps) : SqlEq(comps[i].name, name)})

\* insert_competitor: [table, id]
insert_competitor(comps, competitor_data) ==
    [table |-> Append(comps,
                  CompetitorRow(competitor_data.name,
                                IF competitor_data.website = None THEN "unknown.com"
                                ELSE competitor_data.website[1],
                                IF competitor_data.address = "" THEN None
                                ELSE Some(competitor_data.address),
                                competitor_data.email, competitor_data.pricing,
                                competitor_data.founded_year, competitor_data.funding_stage,
                                competitor_data.fundings_total, competitor_data.employee_qty,
                                competitor_data.founders, competitor_data.score)),
     id |-> Len(comps) + 1]

\* update_competitor: [table, ok]
update_competitor(comps, competitor_id, competitor_data) ==
    [table |-> IF competitor_id \in 1..Len(comps)
               THEN [comps EXCEPT ![competitor_id] =
                        [@ EXCEPT !.address = IF competitor_data.address = "" THEN None
                                               ELSE Some(competitor_data.address),
                                  !.email = competitor_data.email,
                                  !.pricing = competitor_data.pricing,
                                  !.founded_year = competitor_data.founded_year,
                                  !.funding_stage = competitor_data.funding_stage,
                                  !.fundings_total = competitor_data.fundings_total,
                                  !.employee_qty = competitor_data.employee_qty,
                                  !.founders = competitor_data.founders,
                                  !.score = competitor_data.score]]
               ELSE comps,
     ok |-> TRUE]

\* CompetitorDB.save_competitor: [table, id, existed, raised]: the table after it, the
\* id it returned (0: None), whether it found the row, whether the mapping raised
TX_save_competitor(comps, scraped_data) ==
    LET competitor_data == _map_scraped_data_to_competitor(scraped_data)
        name == strip(competitor_data.name)
        existing_id == _competitor_exists(comps, name)
    IN  IF TX_MapRaises(scraped_data)
        THEN [table |-> comps, id |-> 0, existed |-> FALSE, raised |-> TRUE]
        ELSE IF name = "" THEN [table |-> comps, id |-> 0, existed |-> FALSE, raised |-> FALSE]
        ELSE IF existing_id # 0
        THEN [table |-> update_competitor(comps, existing_id, competitor_data).table,
              id |-> existing_id, existed |-> TRUE, raised |-> FALSE]
        ELSE [table |-> insert_competitor(comps, competitor_data).table,
              id |-> Len(comps) + 1, existed |-> FALSE, raised |-> FALSE]

RECURSIVE save_competitors_batch(_, _)
\* CompetitorDB.save_competitors_batch: [table, stats].  An item whose mapping
\* raises or whose name is empty is counted failed; for any other item
\* self.db_config.get_connection() raises AttributeError (CompetitorDB has the
\* attribute db, not db_config), which the loop's handler counts as failed
save_competitors_batch(comps, scraped_data_list) ==
    IF Len(scraped_data_list) = 0
    THEN [table |-> comps,
          stats |-> [inserted |-> 0, updated |-> 0, failed |-> 0, total |-> 0]]
    ELSE LET rest == save_competitors_batch(comps, Tail(scraped_data_list))
         IN  [table |-> rest.table,
              stats |-> [rest.stats EXCEPT !.failed = @ + 1, !.total = @ + 1]]

RECURSIVE SaveEach(_, _)
\* CompetitorDB.save_competitor called on each item of a list in turn:
\* [table, inserted, updated]
SaveEach(comps, scraped_data_list) ==
    IF Len(scraped_data_list) = 0 THEN [table |-> comps, inserted |-> 0, updated |-> 0]
    ELSE LET one == TX_save_competitor(comps, scraped_data_list[1])
             rest == SaveEach(one.table, Tail(scraped_data_list))
         IN  [table |-> rest.table,
              inserted |-> rest.inserted + (IF one.id # 0 /\ ~one.existed THEN 1 ELSE 0),
              updated |-> rest.updated + (IF one.id # 0 /\ one.existed THEN 1 ELSE 0)]

----------------------------------------------------------------------------
(* SpecComp: enrichment passes over the competitors table.  A pass is one  *)
(* call of ParsersVCDataOperations.save_competitor or of                   *)
(* CompetitorDB.save_competitor; the two update methods are also called on *)
(* their own.  lastPass is history: the last call, the row it met and the  *)
(* row it left.                                                            *)

MaxCompetitors == 4

\* Passes made in one behaviour
MaxPasses == 2

\* The writers of SpecComp are built with analyze_news=False
NoAnalyzer ==
    [analyze_news |-> FALSE, api_key |-> FALSE, resp |-> [status |-> 0, body |-> "none", text |-> ""]]

\* What the parsers.vc scraper returns for a company page
PVScrapedData ==
    {[website |-> "ab.io", location |-> place[1], employees |-> place[2],
      total_raised |-> total_raised, founded_year |-> tags[1], categories |-> tags[2],
      press_mentions |-> press_mentions] :
        place \in {<<"", "">>, <<"Berlin", "50-100">>},
        total_raised \in {None, Some(1000), Some(9000)},
        tags \in {<<"", <<>> >>, <<"2017", <<"fraud">> >>},
        press_mentions \in {<<>>, <<CHOOSE m \in Mentions : m.title = "Ab product update">>}}
    \cup {[website |-> w, location |-> "Berlin", employees |-> "", total_raised |-> Some(9000),
           founded_year |-> "", categories |-> <<>>, press_mentions |-> <<>>] :
            w \in {"", "zz.io"}}

\* What the Tracxn scraper returns for a company page
TXScraped(company_name, website, place, facts, total_funding) ==
    [company_name |-> company_name, website |-> website,
     registered_address |-> place[1], main_office |-> place[2], location |-> place[2],
     founded_year |-> facts[1], funding_stage |-> facts[2], employee_count |-> facts[3],
     fundings |-> [total_funding |-> total_funding]]

TXScrapedData ==
    {TXScraped("Ab", "", place, facts, total_funding) :
        place \in {<<"", "">>, <<"Berlin", "Rome">>},
        facts \in {<<"", "", "">>, <<"2017", "Seed", "75">>},
        total_funding \in {"", "$1K", "$9K"}}
    \cup {TXScraped("Zz", "", <<"", "">>, <<"", "", "">>, ""),
          TXScraped(" Zz", "zz.io", <<"", "Rome">>, <<"2017", "Seed", "75">>, "$1.5M"),
          TXScraped("", "", <<"", "">>, <<"", "", "">>, "$9K")}

\* Scraped data whose company is not the row's, for update_competitor on its own
TXOtherData == {d \in TXScrapedData : d.company_name # "Ab"}

\* The rows the update methods are called on, on their own
UpdateIds == {1}

\* Dicts handed to _update_competitor on its own
UpdateData ==
    {EmptyDict,
     Entry("name", "Evil Corp"),
     Entry("name", "Evil Corp") @@ Entry("website", "evil.com") @@ Entry("address", "Rome"),
     Entry("website", "evil.com") @@ Entry("fundings_total", 9000),
     Entry("nickname", "ab")}

\* The competitors table before the passes: the row of "Ab" with or without a
\* funding total and a score given from outside
SeedTables ==
    {<< CompetitorRow("Ab", "ab.io", None, None, None, None, None, fundings_total, None, None,
                      score),
        CompetitorRow("Cd Labs", "cd.com", None, None, None, None, None, None, None, None, 0) >> :
        fundings_total \in {None, Some(5000)}, score \in {0, 7}}

NoRow == CompetitorRow("", "", None, None, None, None, None, None, None, None, 0)

NoPass == [op |-> "none", n |-> 0, id |-> 0, existed |-> FALSE, before |-> NoRow,
           after |-> NoRow, scraped |-> EmptyDict]

InitComp ==
    /\ competitors \in SeedTables
    /\ lastPass = NoPass
    /\ news = <<>>
    /\ classifier = NoAnalyzer
    /\ lastRun = [src |-> "none"]
    /\ IdleAI /\ IdleConn /\ IdleEnrich

RowAt(comps, id) == IF id \in 1..Len(comps) THEN comps[id] ELSE NoRow

ParsersVCSaveCompetitor ==
    \E scraped_data \in PVScrapedData :
        /\ lastPass.n < MaxPasses
        /\ \E later \in {PV_save_competitor(competitors, news, classifier, scraped_data)},
              same_second \in BOOLEAN :
           \E r \in {IF same_second
                     THEN PV_save_competitor_same_second(competitors, scraped_data, later)
                     ELSE later} :
            /\ competitors' = r.comps
            /\ news' = r.table
            /\ lastPass' = [op |-> "pv_save", n |-> lastPass.n + 1,
                            id |-> r.id, existed |-> r.id # 0,
                            before |-> RowAt(competitors, r.id), after |-> RowAt(r.comps, r.id),
                            scraped |-> scraped_data, ok |-> r.ok, updated |-> r.updated]
            /\ UNCHANGED <<eventLoop, scraper, unified, enrich, aiCall, classifier, lastRun, conn, pool, connLog>>

TracxnSaveCompetitor ==
    \E scraped_data \in TXScrapedData :
        /\ lastPass.n < MaxPasses
        /\ \E r \in {TX_save_competitor(competitors, scraped_data)} :
            /\ Len(r.table) <= MaxCompetitors
            /\ competitors' = r.table
            /\ lastPass' = [op |-> "tx_save", n |-> lastPass.n + 1,
                            id |-> r.id, existed |-> r.existed,
                            before |-> RowAt(competitors, r.id), after |-> RowAt(r.table, r.id),
                            scraped |-> scraped_data]
            /\ UNCHANGED <<eventLoop, scraper, unified, enrich, aiCall, news, classifier, lastRun, conn, pool, connLog>>

ParsersVCUpdateCompetitor ==
    \E competitor_id \in UpdateIds, data \in UpdateData :
        /\ lastPass.n < MaxPasses
        /\ \E r \in {_update_competitor(competitors, competitor_id, data)} :
            /\ competitors' = r.table
            /\ lastPass' = [op |-> "pv_update", n |-> lastPass.n + 1,
                            id |-> competitor_id, existed |-> TRUE,
                            before |-> competitors[competitor_id],
                            after |-> r.table[competitor_id], scraped |-> data]
            /\ UNCHANGED <<eventLoop, scraper, unified, enrich, aiCall, news, classifier, lastRun, conn, pool, connLog>>

TracxnUpdateCompetitor ==
    \E competitor_id \in UpdateIds, scraped_data \in TXOtherData :
        /\ lastPass.n < MaxPasses
        /\ \E r \in {update_competitor(competitors, competitor_id,
                                    _map_scraped_data_to_competitor(scraped_data))} :
            /\ ~TX_MapRaises(scraped_data)
            /\ competitors' = r.table
            /\ lastPass' = [op |-> "tx_update", n |-> lastPass.n + 1,
                            id |-> competitor_id, existed |-> TRUE,
                            before |-> competitors[competitor_id],
                            after |-> r.table[competitor_id], scraped |-> scraped_data]
            /\ UNCHANGED <<eventLoop, scraper, unified, enrich, aiCall, news, classifier, lastRun, conn, pool, connLog>>

\* The lists handed to save_competitors_batch
BatchLists ==
    LET new == TXScraped("Zz", "", <<"", "">>, <<"", "", "">>, "")
        known == TXScraped("Ab", "", <<"Berlin", "Rome">>, <<"2017", "Seed", "75">>, "$9K")
        unnamed == TXScraped("", "", <<"", "">>, <<"", "", "">>, "$9K")
    IN  {<<>>, <<new>>, <<known>>, <<unnamed>>, <<new, known>>, <<unnamed, new>>}

TracxnSaveCompetitorsBatch ==
    \E scraped_data_list \in BatchLists :
        /\ lastPass.n < MaxPasses
        /\ \E r \in {save_competitors_batch(competitors, scraped_data_list)} :
            /\ competitors' = r.table
            /\ lastPass' = [op |-> "tx_batch", n |-> lastPass.n + 1, id |-> 0,
                            existed |-> FALSE, before |-> NoRow, after |-> NoRow,
                            scraped |-> scraped_data_list, table_before |-> competitors,
                            stats |-> r.stats]
            /\ UNCHANGED <<eventLoop, scraper, unified, enrich, aiCall, news, classifier, lastRun, conn,
                           pool, connLog>>

NextComp ==
    \/ ParsersVCSaveCompetitor
    \/ TracxnSaveCompetitor
    \/ ParsersVCUpdateCompetitor
    \/ TracxnUpdateCompetitor
    \/ TracxnSaveCompetitorsBatch

SpecComp == InitComp /\ [][NextComp]_vars


\* The last step was an enrichment pass that met an existing row
PassOnExistingRow == lastPass.op \in {"pv_save", "tx_save"} /\ lastPass.existed

(* C3: a ParsersVC pass on an existing row stores max(existing, new) when  *)
(* both totals are present, the new total when only it is present, and     *)
(* writes no fundings_total (the stored value stays) when nothing new was  *)
(* scraped.                                                                *)
C3_FundingMergeKeepsMax ==
    (lastPass.op = "pv_save" /\ lastPass.existed) =>
        LET existing == lastPass.before.fundings_total
            new == lastPass.scraped.total_raised
            stored == lastPass.after.fundings_total
            written == _map_scraped_to_competitor(lastPass.scraped, Some(lastPass.before))
        IN  /\ (new # None /\ existing # None) => stored = Some(Max(new[1], existing[1]))
            /\ (new # None /\ existing = None) => stored = new
            /\ new = None => ("fundings_total" \notin DOMAIN written /\ stored = existing)

\* A pass scraped a total lower than the stored one, and the stored one was kept
C3_Witness ==
    /\ lastPass.op = "pv_save" /\ lastPass.existed
    /\ lastPass.scraped.total_raised # None /\ lastPass.before.fundings_total # None
    /\ lastPass.scraped.total_raised[1] < lastPass.before.fundings_total[1]
    /\ lastPass.after.fundings_total = lastPass.before.fundings_total

(* C4: an enrichment pass (ParsersVC or Tracxn save_competitor) on a row   *)
(* that has a fundings_total leaves it with one that is not lower.         *)
C4_FundingNeverDecreases ==
    (PassOnExistingRow /\ lastPass.before.fundings_total # None) =>
        /\ lastPass.after.fundings_total # None
        /\ lastPass.after.fundings_total[1] >= lastPass.before.fundings_total[1]

(* C5: _update_competitor and update_competitor, called by a pass or on    *)
(* their own, with or without the keys 'name' and 'website' in the data,   *)
(* leave the row's name and website as they were.                          *)
C5_NameAndWebsiteKept ==
    (lastPass.op # "none" /\ lastPass.existed) =>
        /\ lastPass.after.name = lastPass.before.name
        /\ lastPass.after.website = lastPass.before.website

\* _update_competitor was given 'name' and 'website' among the keys, and wrote the rest
C5_Witness ==
    /\ lastPass.op = "pv_update"
    /\ {"name", "website"} \subseteq DOMAIN lastPass.scraped
    /\ lastPass.after.address # lastPass.before.address
    /\ lastPass.after.name = "Ab"

(* C6: an enrichment pass on an existing row leaves its score as it was.   *)
C6_ScoreKept == PassOnExistingRow => lastPass.after.score = lastPass.before.score

\* The fields of C7, and whether the pass extracted a value for one
MergedFields ==
    {"address", "employee_qty", "founded_year", "funding_stage", "fundings_total",
     "email", "pricing", "founders"}

Extracted(op, scraped, field) ==
    IF op = "pv_save"
    THEN CASE field = "address" -> scraped.location # ""
           [] field = "employee_qty" -> scraped.employees # ""
           [] field = "founded_year" -> scraped.founded_year # ""
           [] field = "fundings_total" -> scraped.total_raised # None
           [] OTHER -> FALSE
    ELSE CASE field = "address" -> \/ scraped.registered_address # ""
                                   \/ scraped.main_office # ""
                                   \/ scraped.location # ""
           [] field = "employee_qty" -> scraped.employee_count # ""
           [] field = "founded_year" -> scraped.founded_year # ""
           [] field = "funding_stage" -> scraped.funding_stage # ""
           [] field = "fundings_total" -> scraped.fundings.total_funding # ""
           [] OTHER -> FALSE

(* C7: after an enrichment pass on an existing row, every field the pass   *)
(* extracted nothing for holds what it held before the pass.               *)
C7_UnextractedFieldsKept ==
    PassOnExistingRow =>
        \A field \in MergedFields :
            ~Extracted(lastPass.op, lastPass.scraped, field)
                => lastPass.after[field] = lastPass.before[field]

----------------------------------------------------------------------------
(* SpecConn: database/connection.py.  One scope at a time runs through     *)
(* get_cursor or transaction: get_connection, (cursor creation,) the body  *)
(* of the with-block, commit or rollback, and the finally clause.  Every   *)
(* call on the connection may raise.  `pool` counts the connections taken  *)
(* from the pool and not closed; connLog is the history of the scope.      *)

\* pooling.MySQLConnectionPool(pool_size=5)
pool_size == 5

Scopes == {"get_cursor", "transaction"}

\* How the body of the with-block ends: it runs to its end, returns from inside the
\* block, raises an Exception, or raises a BaseException that is no Exception
\* (KeyboardInterrupt, SystemExit)
BodyOutcomes == {"completes", "returns", "Exception", "BaseException"}

NoScope ==
    [scope |-> "none", body |-> "none", commit_called |-> FALSE, committed |-> FALSE,
     rollback_called |-> FALSE, closed |-> FALSE, raised |-> "none", done |-> FALSE]

Idle == [pc |-> "idle", kind |-> "none", pending |-> "none"]

InitConn ==
    /\ conn = Idle
    /\ pool = 0
    /\ connLog = NoScope
    /\ IdleAI /\ IdleNews /\ IdleComp /\ IdleEnrich

\* The first statement of the finally clause
Finally(kind) == IF kind = "get_cursor" THEN "close_cursor" ELSE "close_connection"

\* connection = self.get_connection(): PoolError when the pool has no connection left
GetConnection ==
    \E kind \in Scopes :
        /\ conn.pc = "idle"
        /\ IF pool < pool_size
           THEN /\ pool' = pool + 1
                /\ conn' = [pc |-> IF kind = "get_cursor" THEN "cursor" ELSE "body",
                            kind |-> kind, pending |-> "none"]
                /\ connLog' = [NoScope EXCEPT !.scope = kind]
           ELSE /\ pool' = pool
                /\ conn' = Idle
                /\ connLog' = [NoScope EXCEPT !.scope = kind, !.raised = "get_connection",
                                              !.done = TRUE]
        /\ UNCHANGED <<eventLoop, scraper, unified, enrich, aiCall, news, classifier, lastRun, competitors, lastPass>>

\* cursor = connection.cursor(dictionary=dictionary), before the try statement
CreateCursor ==
    \E raises \in BOOLEAN :
        /\ conn.pc = "cursor"
        /\ IF raises
           THEN /\ conn' = Idle
                /\ connLog' = [connLog EXCEPT !.raised = "cursor", !.done = TRUE]
           ELSE /\ conn' = [conn EXCEPT !.pc = "body"]
                /\ connLog' = connLog
        /\ UNCHANGED <<eventLoop, scraper, unified, enrich, aiCall, news, classifier, lastRun, competitors, lastPass, pool>>

\* yield: the body of the with-block runs
RunBody ==
    \E outcome \in BodyOutcomes :
        /\ conn.pc = "body"
        /\ conn' = CASE outcome \in {"completes", "returns"} -> [conn EXCEPT !.pc = "commit"]
                     [] outcome = "Exception" ->
                            [conn EXCEPT !.pc = "rollback", !.pending = "body"]
                     [] outcome = "BaseException" ->
                            [conn EXCEPT !.pc = Finally(conn.kind), !.pending = "body"]
        /\ connLog' = [connLog EXCEPT !.body = outcome]
        /\ UNCHANGED <<eventLoop, scraper, unified, enrich, aiCall, news, classifier, lastRun, competitors, lastPass, pool>>

\* connection.commit()
Commit ==
    \E raises \in BOOLEAN :
        /\ conn.pc = "commit"
        /\ conn' = IF raises THEN [conn EXCEPT !.pc = "rollback", !.pending = "commit"]
                   ELSE [conn EXCEPT !.pc = Finally(conn.kind)]
        /\ connLog' = [connLog EXCEPT !.commit_called = TRUE, !.committed = ~raises]
        /\ UNCHANGED <<eventLoop, scraper, unified, enrich, aiCall, news, classifier, lastRun, competitors, lastPass, pool>>

\* except Exception as e: connection.rollback(); raise e
Rollback ==
    \E raises \in BOOLEAN :
        /\ conn.pc = "rollback"
        /\ conn' = [conn EXCEPT !.pc = Finally(conn.kind),
                                !.pending = IF raises THEN "rollback" ELSE @]
        /\ connLog' = [connLog EXCEPT !.rollback_called = TRUE]
        /\ UNCHANGED <<eventLoop, scraper, unified, enrich, aiCall, news, classifier, lastRun, competitors, lastPass, pool>>

\* finally: cursor.close()
CloseCursor ==
    \E raises \in BOOLEAN :
        /\ conn.pc = "close_cursor"
        /\ IF raises
           THEN /\ conn' = Idle
                /\ connLog' = [connLog EXCEPT !.raised = "cursor.close", !.done = TRUE]
           ELSE /\ conn' = [conn EXCEPT !.pc = "close_connection"]
                /\ connLog' = connLog
        /\ UNCHANGED <<eventLoop, scraper, unified, enrich, aiCall, news, classifier, lastRun, competitors, lastPass, pool>>

\* finally: connection.close(), the connection goes back to the pool
CloseConnection ==
    /\ conn.pc = "close_connection"
    /\ pool' = pool - 1
    /\ conn' = Idle
    /\ connLog' = [connLog EXCEPT !.closed = TRUE, !.raised = conn.pending, !.done = TRUE]
    /\ UNCHANGED <<eventLoop, scraper, unified, enrich, aiCall, news, classifier, lastRun, competitors, lastPass>>

\* CompetitorDB.save_competitors_batch, lines 267-271: self.db_config is no attribute
\* of CompetitorDB, the AttributeError is caught by the loop; no connection is taken
SaveCompetitorsBatchItem ==
    /\ conn.pc = "idle"
    /\ conn' = Idle
    /\ connLog' = [NoScope EXCEPT !.scope = "save_competitors_batch", !.done = TRUE]
    /\ UNCHANGED <<eventLoop, scraper, unified, enrich, aiCall, news, classifier, lastRun, competitors, lastPass, pool>>

NextConn ==
    \/ GetConnection
    \/ CreateCursor
    \/ RunBody
    \/ Commit
    \/ Rollback
    \/ CloseCursor
    \/ CloseConnection
    \/ SaveCompetitorsBatchItem

SpecConn == InitConn /\ [][NextConn]_vars

(* C8: in a finished scope whose body ran, commit was called exactly when  *)
(* the body ended without raising; when the body raised, rollback was      *)
(* called, commit was not, and the body's exception is what propagated.    *)
C8_CommitOrRollback ==
    (connLog.done /\ connLog.body # "none") =>
        /\ connLog.commit_called <=> connLog.body \in {"completes", "returns"}
        /\ connLog.body \in {"Exception", "BaseException"} =>
                /\ connLog.rollback_called
                /\ ~connLog.commit_called
                /\ connLog.raised = "body"

(* C9: when no scope is in progress, no connection is checked out.         *)
C9_NoConnectionCheckedOut == conn.pc = "idle" => pool = 0

----------------------------------------------------------------------------
(* SpecBatch: one batch enrichment run of a source over a list of          *)
(* companies.  BiometricUpdate and GlobeNewswire are called with a list of *)
(* names; ParsersVC takes its list from the competitors table.  Each       *)
(* iteration of the loop is one action; the scraper's outcome for a        *)
(* company (articles, nothing, an exception) and a failure of the save are *)
(* chosen per iteration.  enrich.log is history: the companies the loop    *)
(* body ran for, in order.                                                 *)

MaxNames == 2

BatchNames == {"Ab", "acme corp", "Zed"}

BatchCompetitors ==
    << CompetitorRow("Ab", "https://www.ab.io/", None, None, None, None, None, None, None, None, 0),
       CompetitorRow("Cd Labs", "http://", None, None, None, None, None, None, None, None, 0),
       CompetitorRow("Acme Corp", "acme.com", None, None, None, None, None, None, None, None, 0) >>

\* How a news scraper's search for a company ends: it raises, or it returns no
\* article or one
ScrapeOutcomes ==
    {[raises |-> TRUE, articles |-> <<>>]}
    \cup {[raises |-> FALSE, articles |-> articles] :
              articles \in {<<>>, <<CHOOSE a \in StepArticles : a.title = "Funding announced">>}}

\* What the parsers.vc scraper returns for a website it could read
BatchScraped(website) ==
    [website |-> website, location |-> "Berlin", employees |-> "", total_raised |-> Some(9000),
     founded_year |-> "", categories |-> <<>>, press_mentions |-> <<>>]

StartsWith(s, prefix) == Len(s) >= Len(prefix) /\ SubSeq(s, 1, Len(prefix)) = prefix

RECURSIVE rstrip_slash(_)
\* s.rstrip('/')
rstrip_slash(s) ==
    IF Len(s) > 0 /\ CharAt(s, Len(s)) = "/" THEN rstrip_slash(SubSeq(s, 1, Len(s) - 1)) ELSE s

\* CompetitorEnrichmentService._clean_website
_clean_website(website) ==
    IF website = "" THEN ""
    ELSE LET no_protocol == IF StartsWith(website, "https://") THEN SubSeq(website, 9, Len(website))
                            ELSE IF StartsWith(website, "http://")
                            THEN SubSeq(website, 8, Len(website))
                            ELSE website
             no_www == IF StartsWith(no_protocol, "www.")
                       THEN SubSeq(no_protocol, 5, Len(no_protocol)) ELSE no_protocol
         IN  strip(split(rstrip_slash(no_www), "/")[1])

\* ParsersVCDataOperations.get_all_competitors_for_enrichment: ids, ORDER BY id
get_all_competitors_for_enrichment(comps) ==
    SelectIdx(comps, {i \in 1..Len(comps) : comps[i].website # ""})

\* CompetitorEnrichmentService.enrich_competitor: [comps, table, success]
enrich_competitor(comps, table, competitor, scrape, save_raises) ==
    LET clean_website == _clean_website(competitor.website)
        Saved(r) == [comps |-> r.comps, table |-> r.table, success |-> r.ok]
        Failed == [comps |-> comps, table |-> table, success |-> FALSE]
    IN  IF clean_website = "" THEN Failed
        ELSE IF scrape \in {"raises", "none"} THEN Failed
        ELSE IF save_raises THEN Failed
        ELSE Saved(PV_save_competitor(comps, table, NoAnalyzer, BatchScraped(clean_website)))

\* BiometricUpdateEnrichmentService._process_competitor: [table, result]
_process_competitor(table, comps, company_name, scrape, save_raises) ==
    LET Result(status, found, saved, skipped) ==
            [company |-> company_name, status |-> status, articles_found |-> found,
             articles_saved |-> saved, articles_skipped |-> skipped]
        Saved(save_result) ==
            IF save_result.error # None
            THEN [table |-> save_result.table,
                  result |-> Result("error", Len(scrape.articles), 0, 0) @@
                             [error |-> save_result.error[1]]]
            ELSE [table |-> save_result.table,
                  result |-> Result("success", save_result.total, save_result.saved,
                                    save_result.skipped)]
    IN  IF scrape.raises
        THEN [table |-> table,
              result |-> Result("error", 0, 0, 0) @@ [error |-> "Page.goto: Timeout 30000ms exceeded"]]
        ELSE IF Len(scrape.articles) = 0
        THEN [table |-> table, result |-> Result("no_articles", 0, 0, 0)]
        ELSE IF save_raises
        THEN [table |-> table,
              result |-> Result("error", 0, 0, 0) @@ [error |-> "2003: Can't connect to MySQL server"]]
        ELSE Saved(BU_save_company_articles(table, comps, NoAnalyzer, company_name, scrape.articles))

RECURSIVE SumOf(_, _)
\* sum(r.get(field, 0) for r in results)
SumOf(results, field) ==
    IF Len(results) = 0 THEN 0
    ELSE Get(results[1], field, 0) + SumOf(Tail(results), field)

\* BiometricUpdateEnrichmentService._calculate_statistics (rates in whole per cent)
_calculate_statistics(results) ==
    LET CountOf(status) == Cardinality({i \in 1..Len(results) : results[i].status = status})
        companies_with_articles ==
            Cardinality({i \in 1..Len(results) : Get(results[i], "articles_found", 0) > 0})
    IN  [status |-> "completed", companies_processed |-> Len(results),
         successful |-> CountOf("success"), errors |-> CountOf("error"),
         no_articles |-> CountOf("no_articles"),
         companies_with_articles |-> companies_with_articles,
         total_articles_found |-> SumOf(results, "articles_found"),
         total_articles_saved |-> SumOf(results, "articles_saved"),
         total_articles_skipped |-> SumOf(results, "articles_skipped"),
         success_rate |-> IF Len(results) > 0 THEN (CountOf("success") * 100) \div Len(results)
                          ELSE 0,
         avg_articles_per_company |->
             IF companies_with_articles > 0
             THEN SumOf(results, "articles_found") \div companies_with_articles ELSE 0]

RECURSIVE GN_resolve(_, _)
\* enrich_competitors_with_globenewswire: the names of the rows found for
\* competitor_names, in order; a name that is not found is printed and left out
GN_resolve(comps, competitor_names) ==
    IF Len(competitor_names) = 0 THEN <<>>
    ELSE LET id == GN_get_competitor_by_name(comps, competitor_names[1])
         IN  (IF id # 0 THEN <<comps[id].name>> ELSE <<>>)
             \o GN_resolve(comps, Tail(competitor_names))

\* the body of the loop of enrich_competitors_with_globenewswire for one company:
\* [table, found, saved, errors]
GN_process(table, comps, name, scrape, save_raises) ==
    LET Saved(save_result) ==
            [table |-> save_result.table, found |-> Len(scrape.articles),
             saved |-> IF save_result.found THEN save_result.saved ELSE 0,
             errors |-> IF save_result.found THEN <<>>
                        ELSE <<name \o ": " \o save_result.message>>]
    IN  IF scrape.raises
        THEN [table |-> table, found |-> 0, saved |-> 0,
              errors |-> <<"Error processing " \o name \o ": Browser not started. Use async "
                           \o "context manager or call start_browser()">>]
        ELSE IF Len(scrape.articles) = 0
        THEN [table |-> table, found |-> 0, saved |-> 0, errors |-> <<>>]
        ELSE IF save_raises
        THEN [table |-> table, found |-> Len(scrape.articles), saved |-> 0,
              errors |-> <<"Error processing " \o name
                           \o ": 2003: Can't connect to MySQL server">>]
        ELSE Saved(GN_save_competitor_news(table, comps, NoAnalyzer, name, scrape.articles))

\* enrich_competitors_with_globenewswire: the summary returned after the loop
GN_summary(found, saved, processed, errors) ==
    [status |-> "completed",
     message |-> "Processed " \o ToString(processed) \o " companies, saved "
                 \o ToString(saved) \o " articles",
     total_articles_found |-> found, total_articles_saved |-> saved,
     articles_skipped |-> found - saved, companies_processed |-> processed,
     success_rate |-> IF found > 0 THEN (saved * 100) \div found ELSE 0,
     errors |-> errors, source |-> "globenewswire"]

\* enrich_competitors_with_globenewswire when no name is in the table
GN_no_competitors ==
    [status |-> "error", message |-> "No competitors found to process",
     total_articles_found |-> 0, total_articles_saved |-> 0, companies_processed |-> 0,
     processing_time_seconds |-> 0]

InitBatch ==
    /\ news = <<>>
    /\ competitors = BatchCompetitors
    /\ classifier = NoAnalyzer
    /\ \/ \E src \in {"biometricupdate", "globenewswire"},
             competitor_names \in ListsUpTo(BatchNames, MaxNames) \ {<<>>} :
             enrich = [pc |-> "start", src |-> src, names |-> competitor_names]
       \/ enrich = [pc |-> "start", src |-> "parsersvc",
                    names |-> [i \in 1..Len(get_all_competitors_for_enrichment(BatchCompetitors))
                                 |-> get_all_competitors_for_enrichment(BatchCompetitors)[i].name]]
    /\ lastRun = [src |-> "none"]
    /\ lastPass = [op |-> "none"]
    /\ unified = [pc |-> "idle"]
    /\ scraper = [pc |-> "idle"]
    /\ eventLoop = [pc |-> "idle"]
    /\ IdleAI /\ IdleConn

\* the statements before the loop: the list the loop will go through
StartBatch ==
    /\ enrich.pc = "start"
    /\ enrich' =
         CASE enrich.src = "biometricupdate" ->
                [enrich EXCEPT !.pc = "loop"] @@
                [queue |-> enrich.names, log |-> <<>>, results |-> <<>>]
           [] enrich.src = "globenewswire" ->
                LET Start(found) ==
                        IF Len(found) = 0
                        THEN [enrich EXCEPT !.pc = "done"] @@
                             [queue |-> <<>>, log |-> <<>>,
                              ret |-> [raised |-> FALSE] @@ GN_no_competitors]
                        ELSE [enrich EXCEPT !.pc = "loop"] @@
                             [queue |-> found, log |-> <<>>, total_articles_found |-> 0,
                              total_articles_saved |-> 0, companies_processed |-> 0,
                              errors |-> <<>>]
                IN  Start(GN_resolve(competitors, enrich.names))
           [] enrich.src = "parsersvc" ->
                [enrich EXCEPT !.pc = "loop"] @@
                [queue |-> get_all_competitors_for_enrichment(competitors), log |-> <<>>,
                 processed |-> 0, successful |-> 0, failed |-> 0]
    /\ UNCHANGED <<news, competitors>>
    /\ UNCHANGED <<eventLoop, scraper, aiCall, classifier, lastRun, lastPass, conn, pool, connLog, unified>>

\* one iteration of the loop of BiometricUpdateEnrichmentService.enrich_all_competitors
ProcessCompetitor ==
    /\ enrich.pc = "loop" /\ enrich.src = "biometricupdate"
    /\ Len(enrich.log) < Len(enrich.queue)
    /\ \E scrape \in ScrapeOutcomes, save_raises \in BOOLEAN :
        /\ save_raises => (~scrape.raises /\ Len(scrape.articles) > 0)
        /\ \E r \in {_process_competitor(news, competitors, enrich.queue[Len(enrich.log) + 1],
                                         scrape, save_raises)} :
            /\ news' = r.table
            /\ enrich' = [enrich EXCEPT !.log = Append(@, enrich.queue[Len(enrich.log) + 1]),
                                        !.results = Append(@, r.result)]
    /\ UNCHANGED competitors
    /\ UNCHANGED <<eventLoop, scraper, aiCall, classifier, lastRun, lastPass, conn, pool, connLog, unified>>

\* one iteration of the loop of enrich_competitors_with_globenewswire
ProcessCompany ==
    /\ enrich.pc = "loop" /\ enrich.src = "globenewswire"
    /\ Len(enrich.log) < Len(enrich.queue)
    /\ \E scrape \in ScrapeOutcomes, save_raises \in BOOLEAN :
        /\ save_raises => (~scrape.raises /\ Len(scrape.articles) > 0)
        /\ \E r \in {GN_process(news, competitors, enrich.queue[Len(enrich.log) + 1],
                                scrape, save_raises)} :
            /\ news' = r.table
            /\ enrich' = [enrich EXCEPT !.log = Append(@, enrich.queue[Len(enrich.log) + 1]),
                                        !.total_articles_found = @ + r.found,
                                        !.total_articles_saved = @ + r.saved,
                                        !.companies_processed = @ + 1,
                                        !.errors = @ \o r.errors]
    /\ UNCHANGED competitors
    /\ UNCHANGED <<eventLoop, scraper, aiCall, classifier, lastRun, lastPass, conn, pool, connLog, unified>>

\* one iteration of the loop of CompetitorEnrichmentService.enrich_all_competitors
EnrichCompetitor ==
    /\ enrich.pc = "loop" /\ enrich.src = "parsersvc"
    /\ Len(enrich.log) < Len(enrich.queue)
    /\ \E scrape \in {"raises", "none", "data"}, save_raises \in BOOLEAN :
        /\ save_raises => scrape = "data"
        /\ \E r \in {enrich_competitor(competitors, news, enrich.queue[Len(enrich.log) + 1],
                                       scrape, save_raises)} :
            /\ competitors' = r.comps
            /\ news' = r.table
            /\ enrich' = [enrich EXCEPT !.log = Append(@, enrich.queue[Len(enrich.log) + 1].name),
                                        !.processed = @ + 1,
                                        !.successful = @ + (IF r.success THEN 1 ELSE 0),
                                        !.failed = @ + (IF r.success THEN 0 ELSE 1)]
    /\ UNCHANGED <<eventLoop, scraper, aiCall, classifier, lastRun, lastPass, conn, pool, connLog, unified>>

\* the statements after the loop: the summary that is returned
ReturnSummary ==
    /\ enrich.pc = "loop"
    /\ Len(enrich.log) = Len(enrich.queue)
    /\ enrich' = [enrich EXCEPT !.pc = "done"] @@
         [ret |-> [raised |-> FALSE] @@
            CASE enrich.src = "biometricupdate" ->
                    _calculate_statistics(enrich.results) @@ [results |-> enrich.results]
              [] enrich.src = "globenewswire" ->
                    GN_summary(enrich.total_articles_found, enrich.total_articles_saved,
                               enrich.companies_processed, enrich.errors)
              [] enrich.src = "parsersvc" ->
                    [total |-> Len(enrich.queue), processed |-> enrich.processed,
                     successful |-> enrich.successful, failed |-> enrich.failed]]
    /\ UNCHANGED <<news, competitors>>
    /\ UNCHANGED <<eventLoop, scraper, aiCall, classifier, lastRun, lastPass, conn, pool, connLog, unified>>

NextBatch ==
    StartBatch \/ ProcessCompetitor \/ ProcessCompany \/ EnrichCompetitor \/ ReturnSummary

SpecBatch == InitBatch /\ [][NextBatch]_vars

(* C18: a finished batch run of any of the three sources has not raised,   *)
(* has run the loop body for every company of the input list exactly once, *)
(* in the order of the list, whatever the scraper and the save did for     *)
(* each company, and has returned a summary carrying the count of the      *)
(* companies processed.  Violated: GlobeNewswire leaves a name it does not *)
(* find in the competitors table out of the loop and out of the counts.    *)
C18_BatchNeverAborts ==
    enrich.pc = "done" =>
        /\ ~enrich.ret.raised
        /\ Len(enrich.log) = Len(enrich.names)
        /\ \A k \in 1..Len(enrich.log) : lower(enrich.log[k]) = lower(enrich.names[k])
        /\ \/ Get(enrich.ret, "companies_processed", -1) = Len(enrich.names)
           \/ Get(enrich.ret, "processed", -1) = Len(enrich.names)

\* the source's own lookup of a name in the competitors table finds no row
NotInTable(src, name) ==
    IF src = "biometricupdate" THEN BU_get_competitor_by_name(competitors, name) = 0
    ELSE GN_get_competitor_by_name(competitors, name) = 0

(* C19: in a finished BiometricUpdate or GlobeNewswire batch, every name   *)
(* of the input list that is not in the competitors table has a per-item   *)
(* entry in the returned summary, a failed or skipped result that carries  *)
(* a message, and every name that is in the table went through the loop.   *)
(* Violated: GlobeNewswire prints the name and returns nothing about it;   *)
(* BiometricUpdate returns status 'no_articles' without a message when the *)
(* scraper found nothing for the name.                                     *)
C19_NotFoundReported ==
    (enrich.pc = "done" /\ enrich.src \in {"biometricupdate", "globenewswire"}) =>
        \A k \in 1..Len(enrich.names) :
            IF NotInTable(enrich.src, enrich.names[k])
            THEN IF enrich.src = "biometricupdate"
                 THEN \E i \in 1..Len(enrich.ret.results) :
                        /\ enrich.ret.results[i].company = enrich.names[k]
                        /\ enrich.ret.results[i].status \in {"error", "skipped", "failed"}
                        /\ Get(enrich.ret.results[i], "error", "") # ""
                 ELSE \E i \in 1..Len(Get(enrich.ret, "errors", <<>>)) :
                        Contains(enrich.names[k], enrich.ret.errors[i])
            ELSE \E j \in 1..Len(enrich.log) : lower(enrich.log[j]) = lower(enrich.names[k])

----------------------------------------------------------------------------
(* SpecUnified: one call of enrich_all_sources(competitor_names, sources,  *)
(* run_parallel).  Init draws the arguments; sources names each pipeline   *)
(* at most once (source_results is a dict keyed by the source's name).  A  *)
(* pipeline ends by returning a result dict or by raising an Exception;    *)
(* in parallel mode the tasks end in any order.                            *)

MaxSources == 2

SourceNames == {"parsersvc", "solutionsreview", "biometricupdate", "GlobeNewswire", "rss"}

NameLists == {<<>>, <<"Ab">>}

Pending == [state |-> "pending"]

Returned(result) == [state |-> "returned", result |-> result]

\* an Exception whose str() is `error`
Raised(error) == [state |-> "raised", error |-> error]

\* enrich_competitors_with_parsersvc: the unified format built from the counts
PV_unified(processed, successful) ==
    [status |-> "completed", total_articles_found |-> 0, total_articles_saved |-> 0,
     total_articles_skipped |-> 0, companies_processed |-> processed,
     success_rate |-> IF processed > 0 THEN (successful * 100) \div processed ELSE 0,
     source |-> "parsersvc"]

\* enrich_competitors_with_solutionsreview: a result in the unified format
SR_unified(found, saved) ==
    [status |-> "completed", total_articles_found |-> found, total_articles_saved |-> saved,
     total_articles_skipped |-> found - saved,
     success_rate |-> IF found > 0 THEN (saved * 100) \div found ELSE 0,
     source |-> "solutionsreview"]

\* enrich_from_single_source: the ways the coroutine for `source` can end
enrich_from_single_source(source) ==
    CASE lower(source) = "parsersvc" ->
            {Returned(PV_unified(1, 1)), Returned(PV_unified(1, 0)),
             Raised("cannot import name 'ParsersVCScraper'")}
      [] lower(source) = "solutionsreview" ->
            {Returned(SR_unified(2, 1)), Raised("Page.goto: Timeout 30000ms exceeded")}
      [] lower(source) = "biometricupdate" ->
            {Returned(_calculate_statistics(<<[company |-> "Ab", status |-> "success", articles_found |-> 2,
                                               articles_saved |-> 1, articles_skipped |-> 1]>>)),
             Returned(_calculate_statistics(<<[company |-> "Ab", status |-> "no_articles",
                                               articles_found |-> 0, articles_saved |-> 0,
                                               articles_skipped |-> 0]>>)),
             Raised("2003: Can't connect to MySQL server")}
      [] lower(source) = "globenewswire" ->
            {Returned(GN_summary(2, 2, 1, <<>>)), Returned(GN_no_competitors),
             Raised("BrowserType.launch: Executable doesn't exist")}
      [] OTHER ->
            {Raised("Unknown source: " \o source \o ". Must be one of: parsersvc, "
                    \o "solutionsreview, biometricupdate, globenewswire")}

\* asyncio.gather(*tasks) that lets the first exception propagate
gather_Propagate(tasks) ==
    IF \E i \in 1..Len(tasks) : tasks[i].state = "raised"
    THEN LET i == CHOOSE i \in 1..Len(tasks) : tasks[i].state = "raised"
         IN  [raised |-> TRUE, error |-> tasks[i].error]
    ELSE [raised |-> FALSE, results_list |-> tasks]

\* asyncio.gather(*tasks, return_exceptions=True): exceptions are results
gather(tasks) == [raised |-> FALSE, results_list |-> tasks]

\* the entry the loop over results_list stores for one result
GatherEntry(result) ==
    IF result.state = "raised"
    THEN [status |-> "error", error |-> result.error]
    ELSE result.result

\* the sequential loop's try/except around one pipeline
TryEntry(outcome) ==
    IF outcome.state = "raised"
    THEN [status |-> "error", error |-> outcome.error]
    ELSE outcome.result

RECURSIVE SumField(_, _, _)
SumField(source_results, keys, field) ==
    IF keys = {} THEN 0
    ELSE LET k == CHOOSE k \in keys : TRUE
         IN  IF Get(source_results[k], "status", "") = "completed"
             THEN Get(source_results[k], field, 0)
                  + SumField(source_results, keys \ {k}, field)
             ELSE SumField(source_results, keys \ {k}, field)

_calculate_overall_statistics(source_results, competitor_names) ==
    LET completed == {k \in DOMAIN source_results :
                          Get(source_results[k], "status", "") = "completed"}
        total == Cardinality(DOMAIN source_results)
    IN  [companies_processed |-> Len(competitor_names),
         sources_total |-> total,
         sources_successful |-> Cardinality(completed),
         sources_failed |-> total - Cardinality(completed),
         overall_success_rate |-> IF total > 0 THEN (Cardinality(completed) * 100) \div total
                                  ELSE 0,
         total_articles_found |->
             SumField(source_results, DOMAIN source_results, "total_articles_found"),
         total_articles_saved |->
             SumField(source_results, DOMAIN source_results, "total_articles_saved"),
         total_articles_skipped |->
             SumField(source_results, DOMAIN source_results, "total_articles_skipped")]

\* the return statement of enrich_all_sources
Completed(source_results, competitor_names, run_parallel) ==
    [raised |-> FALSE, status |-> "completed",
     overall_stats |-> _calculate_overall_statistics(source_results, competitor_names),
     source_results |-> source_results,
     competitors_processed |-> competitor_names,
     execution_mode |-> IF run_parallel THEN "parallel" ELSE "sequential"]

InitUnified ==
    /\ \E competitor_names \in NameLists, run_parallel \in BOOLEAN,
          sources \in {l \in ListsUpTo(SourceNames, MaxSources) :
                           \A i, j \in 1..Len(l) : i # j => l[i] # l[j]} :
          unified = [pc |-> "start", competitor_names |-> competitor_names,
                     sources |-> sources, run_parallel |-> run_parallel]
    /\ enrich = [pc |-> "idle"]
    /\ scraper = [pc |-> "idle"]
    /\ eventLoop = [pc |-> "idle"]
    /\ IdleAI /\ IdleNews /\ IdleComp /\ IdleConn

\* enrich_all_sources up to the creation of the tasks (or the first pipeline)
EnrichAllSources ==
    /\ unified.pc = "start"
    /\ unified' =
         IF Len(unified.competitor_names) = 0
         THEN [unified EXCEPT !.pc = "done"] @@
              [ret |-> [raised |-> FALSE, status |-> "error",
                        message |-> "No competitors found in database"]]
         ELSE [unified EXCEPT !.pc = IF unified.run_parallel THEN "gather" ELSE "loop"] @@
              [tasks |-> [i \in 1..Len(unified.sources) |-> Pending],
               source_results |-> <<>>, next |-> 1]
    /\ UNCHANGED <<eventLoop, scraper, aiCall, news, classifier, lastRun, competitors, lastPass,
                   conn, pool, connLog, enrich>>

\* parallel mode: one of the tasks under gather ends
TaskEnds ==
    /\ unified.pc = "gather"
    /\ \E i \in 1..Len(unified.sources) :
        /\ unified.tasks[i] = Pending
        /\ \E outcome \in enrich_from_single_source(unified.sources[i]) :
             unified' = [unified EXCEPT !.tasks[i] = outcome]
    /\ UNCHANGED <<eventLoop, scraper, aiCall, news, classifier, lastRun, competitors, lastPass,
                   conn, pool, connLog, enrich>>

RECURSIVE StoreResults(_, _, _)
\* for i, result in enumerate(results_list): source_results[sources[i]] = ...
StoreResults(source_results, sources, results_list) ==
    IF Len(sources) = 0 THEN source_results
    ELSE StoreResults((sources[1] :> GatherEntry(results_list[1])) @@ source_results,
                      Tail(sources), Tail(results_list))

\* parallel mode: gather ends, the results are stored and the call returns
GatherReturns ==
    /\ unified.pc = "gather"
    /\ \A i \in 1..Len(unified.sources) : unified.tasks[i] # Pending
    /\ \E g \in {gather(unified.tasks)} :
         unified' =
           IF g.raised
           THEN [unified EXCEPT !.pc = "done"] @@ [ret |-> g]
           ELSE LET Done(source_results) ==
                        [unified EXCEPT !.pc = "done", !.source_results = source_results] @@
                        [ret |-> Completed(source_results, unified.competitor_names, TRUE)]
                IN  Done(StoreResults(<<>>, unified.sources, g.results_list))
    /\ UNCHANGED <<eventLoop, scraper, aiCall, news, classifier, lastRun, competitors, lastPass,
                   conn, pool, connLog, enrich>>

\* sequential mode: one iteration of the loop over sources
RunSource ==
    /\ unified.pc = "loop"
    /\ unified.next <= Len(unified.sources)
    /\ \E outcome \in enrich_from_single_source(unified.sources[unified.next]) :
         unified' = [unified EXCEPT
                        !.tasks[unified.next] = outcome,
                        !.source_results =
                            (unified.sources[unified.next] :> TryEntry(outcome)) @@ @,
                        !.next = @ + 1]
    /\ UNCHANGED <<eventLoop, scraper, aiCall, news, classifier, lastRun, competitors, lastPass,
                   conn, pool, connLog, enrich>>

\* sequential mode: the loop is over and the call returns
LoopReturns ==
    /\ unified.pc = "loop"
    /\ unified.next > Len(unified.sources)
    /\ unified' = [unified EXCEPT !.pc = "done"] @@
                  [ret |-> Completed(unified.source_results, unified.competitor_names, FALSE)]
    /\ UNCHANGED <<eventLoop, scraper, aiCall, news, classifier, lastRun, competitors, lastPass,
                   conn, pool, connLog, enrich>>

NextUnified == EnrichAllSources \/ TaskEnds \/ GatherReturns \/ RunSource \/ LoopReturns

SpecUnified == InitUnified /\ [][NextUnified]_vars

(* C17: when enrich_all_sources has run the pipelines (in parallel or in   *)
(* sequence), the call has not raised and returns status 'completed', and  *)
(* source_results holds, for every requested source whose pipeline raised  *)
(* (an unknown source name included), an entry with status 'error', and    *)
(* for every other requested source exactly the result its pipeline        *)
(* returned.                                                               *)
C17_FailureIsolation ==
    (unified.pc = "done" /\ Len(unified.competitor_names) > 0) =>
        /\ ~unified.ret.raised
        /\ unified.ret.status = "completed"
        /\ DOMAIN unified.ret.source_results
               = {unified.sources[i] : i \in 1..Len(unified.sources)}
        /\ \A i \in 1..Len(unified.sources) :
             LET entry == unified.ret.source_results[unified.sources[i]]
             IN  IF unified.tasks[i].state = "raised"
                 THEN entry.status = "error"
                 ELSE entry = unified.tasks[i].result

\* A finished parallel call in which the first source's pipeline raised and
\* the second one returned a result
C17_Witness ==
    /\ unified.pc = "done" /\ unified.run_parallel
    /\ Len(unified.competitor_names) > 0
    /\ Len(unified.sources) = 2
    /\ unified.tasks[1].state = "raised"
    /\ unified.tasks[2].state = "returned"
    /\ unified.ret.status = "completed"
    /\ unified.ret.source_results[unified.sources[1]].status = "error"
    /\ unified.ret.source_results[unified.sources[2]] = unified.tasks[2].result

----------------------------------------------------------------------------
(* Field extraction in the scrapers: services/parsersvc/scraper.py          *)
(* (ParsersVCScraper) and services/tracxn/scraper.py (TracxnScraper).      *)
(*                                                                         *)
(* A regular expression is a sequence of elements, each a character class  *)
(* with a quantifier; re.search is computed the way the backtracking       *)
(* matcher of `re` computes it.  \s is the four ASCII characters of        *)
(* IsSpace and \d the ten ASCII digits.                                    *)

SpaceChars == {" ", "\n", "\t", "\r"}

DigitChars == {CharAt(Digits, i) : i \in 1..Len(Digits)}

\* [\d.]
NumChars == DigitChars \cup {"."}

\* [:\s]
SepChars == SpaceChars \cup {":"}

\* The characters one pattern character matches under re.IGNORECASE
CaseSet(c) == {c} \cup {x \in UpperChars \cup {LowerOfUpper[u] : u \in UpperChars} :
                          LowerChar(x) = LowerChar(c)}

\* [MBK] under re.IGNORECASE
UnitChars == CaseSet("M") \cup CaseSet("B") \cup CaseSet("K")

\* x, x?, x+ and x* for a character class x
One(chars) == [chars |-> chars, min |-> 1, many |-> FALSE]

Opt(chars) == [chars |-> chars, min |-> 0, many |-> FALSE]

Plus(chars) == [chars |-> chars, min |-> 1, many |-> TRUE]

Star(chars) == [chars |-> chars, min |-> 0, many |-> TRUE]

\* The elements of a literal word; flags is "IGNORECASE" or ""
Literal(word, flags) ==
    [i \in 1..Len(word) |->
        One(IF flags = "IGNORECASE" THEN CaseSet(CharAt(word, i)) ELSE {CharAt(word, i)})]

\* The place after the longest run of characters of `chars` that starts at place i
RunEnd(s, i, chars) ==
    LET stops == {j \in i..Len(s) : CharAt(s, j) \notin chars}
    IN  IF stops = {} THEN Len(s) + 1 ELSE CHOOSE j \in stops : \A k \in stops : j <= k

RECURSIVE MatchAt(_, _, _)
RECURSIVE TryCount(_, _, _, _)
\* The first element takes n characters and the rest must match; if it does not,
\* the element gives one character back
TryCount(s, p, items, n) ==
    IF n < items[1].min THEN <<>>
    ELSE LET rest == MatchAt(s, p + n, Tail(items))
         IN  IF rest # <<>> THEN <<p>> \o rest ELSE TryCount(s, p, items, n - 1)

\* The pattern matched at place p: the places where its elements start, and
\* the place after the match last; <<>> when it does not match
MatchAt(s, p, items) ==
    IF Len(items) = 0 THEN <<p>>
    ELSE LET run == RunEnd(s, p, items[1].chars) - p
         IN  TryCount(s, p, items, IF items[1].many THEN run ELSE Min(run, 1))

\* One expansion of a regular expression without optional groups: its elements,
\* and its group 1 as the n elements that start `back` elements before the end
Alt(items, back, n) == [items |-> items, back |-> back, n |-> n]

\* The text of the n elements that start `back` elements before the end of a
\* match, given by the places `at` where its elements start
Span(s, at, back, n) == SubSeq(s, at[Len(at) - back], at[Len(at) - back + n] - 1)

NoMatch == [found |-> FALSE]

\* The match of one regular expression at place p: `alternatives` are its
\* expansions, in the order the matcher tries them
MatchAlternatives(s, p, alternatives) ==
    LET hits == {k \in 1..Len(alternatives) : MatchAt(s, p, alternatives[k].items) # <<>>}
        alt == alternatives[CHOOSE k \in hits : \A j \in hits : k <= j]
        at == MatchAt(s, p, alt.items)
    IN  IF hits = {} THEN NoMatch
        ELSE [found |-> TRUE, at |-> at, group1 |-> Span(s, at, alt.back, alt.n)]

\* re.search(pattern, s): the match at the leftmost place that has one
re_search(alternatives, s) ==
    LET places == {p \in 1..(Len(s) + 1) : MatchAlternatives(s, p, alternatives).found}
    IN  IF places = {} THEN NoMatch
        ELSE MatchAlternatives(s, CHOOSE p \in places : \A q \in places : p <= q, alternatives)

RECURSIVE re_sub_spaces(_)
\* re.sub(r'\s+', ' ', text)
re_sub_spaces(text) ==
    IF Len(text) = 0 THEN ""
    ELSE IF IsSpace(CharAt(text, 1))
    THEN " " \o re_sub_spaces(SubSeq(text, RunEnd(text, 1, SpaceChars), Len(text)))
    ELSE CharAt(text, 1) \o re_sub_spaces(Tail(text))

\* ParsersVCScraper._clean_text
_clean_text(text) == strip(re_sub_spaces(text))

(* ParsersVCScraper *)

\* \$?([\d.]+)\s*([MBK])? after a keyword and [:\s]+
AmountAndUnit == <<Plus(SepChars), Opt({"$"}), Plus(NumChars), Star(SpaceChars), Opt(UnitChars)>>

\* The three patterns of _extract_total_raised
total_raised_patterns ==
    << << Alt(Literal("Total", "IGNORECASE") \o <<Plus(SpaceChars)>>
                  \o Literal("funding", "IGNORECASE") \o <<Plus(SpaceChars)>>
                  \o Literal("raised", "IGNORECASE") \o AmountAndUnit, 3, 1),
          Alt(Literal("Total", "IGNORECASE") \o <<Plus(SpaceChars)>>
                  \o Literal("raised", "IGNORECASE") \o AmountAndUnit, 3, 1) >>,
       << Alt(Literal("Funding", "IGNORECASE") \o AmountAndUnit, 3, 1) >>,
       << Alt(Literal("raised", "IGNORECASE") \o <<Plus(SpaceChars)>>
                  \o Tail(AmountAndUnit), 3, 1) >> >>

RECURSIVE TotalRaisedFrom(_, _)
\* The loop of _extract_total_raised from pattern k on: the first pattern whose
\* match converts; a match whose float() raises ValueError is passed over
TotalRaisedFrom(body_text, k) ==
    IF k > Len(total_raised_patterns) THEN None
    ELSE LET match == re_search(total_raised_patterns[k], body_text)
             amount_str == match.group1
             group2 == Span(body_text, match.at, 1, 1)
             unit == IF group2 # "" THEN CHOOSE u \in {"M", "B", "K"} : lower(u) = lower(group2)
                     ELSE ""
             value == AmountTimes(amount_str, UnitMultiplier(unit))
         IN  IF ~match.found THEN TotalRaisedFrom(body_text, k + 1)
             ELSE IF value = None THEN TotalRaisedFrom(body_text, k + 1)
             ELSE value

\* _extract_total_raised: Some(dollars) or None
_extract_total_raised(body_text) == TotalRaisedFrom(body_text, 1)

\* (\d{4}) after a keyword and [:\s]+
FourDigits == <<Plus(SepChars), One(DigitChars), One(DigitChars), One(DigitChars), One(DigitChars)>>

\* The four patterns of _extract_founded_year
founded_year_patterns ==
    << << Alt(Literal("Founded", "IGNORECASE") \o FourDigits, 4, 4) >>,
       << Alt(Literal("Established", "IGNORECASE") \o FourDigits, 4, 4) >>,
       << Alt(Literal("Founded in", "IGNORECASE") \o FourDigits, 4, 4) >>,
       << Alt(Literal("Since", "IGNORECASE") \o FourDigits, 4, 4) >> >>

\* 1900 <= int(year) <= datetime.now().year + 1
YearIsReasonable(year, current_year) == 1900 <= year /\ year <= current_year + 1

RECURSIVE FoundedYearFrom(_, _, _)
\* The loop of _extract_founded_year from pattern k on
FoundedYearFrom(body_text, current_year, k) ==
    IF k > Len(founded_year_patterns) THEN ""
    ELSE LET match == re_search(founded_year_patterns[k], body_text)
         IN  IF match.found /\ YearIsReasonable(DecimalValue(match.group1), current_year)
             THEN match.group1
             ELSE FoundedYearFrom(body_text, current_year, k + 1)

\* _extract_founded_year: the year's four digits, or ""
_extract_founded_year(body_text, current_year) == FoundedYearFrom(body_text, current_year, 1)

\* \d+ and \d+\s*-\s*\d+
Count == <<Plus(DigitChars)>>

Range == <<Plus(DigitChars), Star(SpaceChars), One({"-"}), Star(SpaceChars), Plus(DigitChars)>>

\* (\d+(?:\s*-\s*\d+)?) after a keyword and [:\s]+
CountOrRange(keyword) ==
    << Alt(Literal(keyword, "IGNORECASE") \o <<Plus(SepChars)>> \o Range, 5, 5),
       Alt(Literal(keyword, "IGNORECASE") \o <<Plus(SepChars)>> \o Count, 1, 1) >>

\* (\d+\s*-\s*\d+)\s+employees after a prefix
RangeOfEmployees(prefix, flags) ==
    << Alt(prefix \o Range \o <<Plus(SpaceChars)>> \o Literal("employees", flags), 15, 5) >>

\* The four patterns of _extract_employees
employees_patterns ==
    << CountOrRange("Employees"), CountOrRange("Employee count"), CountOrRange("Team size"),
       RangeOfEmployees(<<>>, "IGNORECASE") >>

RECURSIVE EmployeesFrom(_, _)
\* The loop of _extract_employees from pattern k on
EmployeesFrom(body_text, k) ==
    IF k > Len(employees_patterns) THEN ""
    ELSE LET match == re_search(employees_patterns[k], body_text)
         IN  IF match.found /\ _clean_text(match.group1) # "" THEN _clean_text(match.group1)
             ELSE EmployeesFrom(body_text, k + 1)

\* _extract_employees: "50-100", "75" or ""
_extract_employees(body_text) == EmployeesFrom(body_text, 1)

(* TracxnScraper *)

\* _extract_key_metrics, the founded year: Founded, founded, Founded Year, matched
\* with their case, then [:\s]+(\d{4}); the first match is taken as it is
TX_founded_patterns ==
    << << Alt(Literal("Founded", "") \o FourDigits, 4, 4) >>,
       << Alt(Literal("founded", "") \o FourDigits, 4, 4) >>,
       << Alt(Literal("Founded Year", "") \o FourDigits, 4, 4) >> >>

\* \$?([\d.]+[BMK]) after a keyword and [:\s]+
AmountWithUnit(keyword) ==
    << Alt(Literal(keyword, "IGNORECASE")
               \o <<Plus(SepChars), Opt({"$"}), Plus(NumChars), One(UnitChars)>>, 2, 2) >>

TX_funding_patterns ==
    << AmountWithUnit("Total Funding"), AmountWithUnit("raised"), AmountWithUnit("has raised") >>

TX_employee_patterns ==
    << RangeOfEmployees(<<>>, "IGNORECASE"),
       RangeOfEmployees(Literal("has", "IGNORECASE") \o <<Plus(SepChars)>>, "IGNORECASE") >>

RECURSIVE FirstGroup(_, _, _)
\* for pattern in patterns: match = re.search(...); if match: group(1); break
FirstGroup(patterns, body_text, k) ==
    IF k > Len(patterns) THEN ""
    ELSE LET match == re_search(patterns[k], body_text)
         IN  IF match.found THEN match.group1 ELSE FirstGroup(patterns, body_text, k + 1)

\* _extract_key_metrics: the three metrics the competitors writer reads
_extract_key_metrics(body_text) ==
    LET funding == FirstGroup(TX_funding_patterns, body_text, 1)
    IN  [founded_year |-> FirstGroup(TX_founded_patterns, body_text, 1),
         total_funding |-> IF funding # "" THEN "$" \o funding ELSE "",
         employee_count |-> FirstGroup(TX_employee_patterns, body_text, 1)]

----------------------------------------------------------------------------
(* SpecExtract: one company page is scraped by one of the two scrapers and *)
(* the scraped data is saved by that source's competitors writer.  The     *)
(* page text and the year of the clock are the inputs.                     *)

\* What datetime.now().year may be
ClockYears == {2025, 2026}

FundingLines ==
    {"", "Total raised: $1.5M", "Total funding raised $2B", "Funding: 750K", "raised 500",
     "Total Funding: $1.2.3M", "Funding: . has raised $3m", "raised: $9k"}

FoundedLines ==
    {"", "Founded: 1899 Since 2001", "Founded in 2028", "founded 2027", "Established: 1900"}

EmployeesLines == {"", "Employees: 50-100", "has 10 - 50 employees", "Team size: 99"}

\* The visible text of a company page
PageTexts ==
    {join("\n", <<f, y, e>>) : f \in FundingLines, y \in FoundedLines, e \in EmployeesLines}

\* Scraped data handed to CompetitorDB.save_competitor from elsewhere than the page
FundingStrings == {"$1.5M", "$2B", "750K", "500", "1.2.3M", "$2b"}

\* The competitors table before the page is scraped
ExtractSeed ==
    << CompetitorRow("Ab", "ab.io", None, None, None, None, None, None, None, None, 0) >>

InitExtract ==
    /\ \/ \E src \in {"parsersvc", "tracxn"}, body_text \in PageTexts, current_year \in ClockYears :
            scraper = [pc |-> "page", src |-> src, body_text |-> body_text,
                       current_year |-> current_year]
       \/ \E total_funding \in FundingStrings, current_year \in ClockYears :
            scraper = [pc |-> "scraped", src |-> "tracxn", body_text |-> "",
                       current_year |-> current_year,
                       data |-> TXScraped("Ab", "", <<"", "">>, <<"", "", "">>, total_funding)]
    /\ competitors = ExtractSeed
    /\ lastPass = NoPass
    /\ news = <<>>
    /\ classifier = NoAnalyzer
    /\ lastRun = [src |-> "none"]
    /\ IdleAI /\ IdleConn
    /\ eventLoop = [pc |-> "idle"]
    /\ unified = [pc |-> "idle"]
    /\ enrich = [pc |-> "idle"]

\* ParsersVCScraper.scrape_company, the extraction from the loaded page
ParsersVCScrape ==
    /\ scraper.pc = "page" /\ scraper.src = "parsersvc"
    /\ scraper' = [scraper EXCEPT !.pc = "scraped"] @@
                  [data |-> [website |-> "ab.io", location |-> "",
                             employees |-> _extract_employees(scraper.body_text),
                             total_raised |-> _extract_total_raised(scraper.body_text),
                             founded_year |-> _extract_founded_year(scraper.body_text,
                                                                    scraper.current_year),
                             categories |-> <<>>, press_mentions |-> <<>>]]
    /\ UNCHANGED <<eventLoop, aiCall, news, classifier, lastRun, competitors, lastPass, conn, pool,
                   connLog, unified, enrich>>

\* TracxnScraper.scrape_company, the extraction from the loaded page
TracxnScrape ==
    /\ scraper.pc = "page" /\ scraper.src = "tracxn"
    /\ \E metrics \in {_extract_key_metrics(scraper.body_text)} :
        scraper' = [scraper EXCEPT !.pc = "scraped"] @@
                   [data |-> TXScraped("Ab", "", <<"", "">>,
                                       <<metrics.founded_year, "", metrics.employee_count>>,
                                       metrics.total_funding)]
    /\ UNCHANGED <<eventLoop, aiCall, news, classifier, lastRun, competitors, lastPass, conn, pool,
                   connLog, unified, enrich>>

\* ParsersVCDataOperations.save_competitor on the scraped data
ParsersVCSave ==
    /\ scraper.pc = "scraped" /\ scraper.src = "parsersvc"
    /\ \E r \in {PV_save_competitor(competitors, news, classifier, scraper.data)} :
        /\ competitors' = r.comps
        /\ news' = r.table
        /\ scraper' = [scraper EXCEPT !.pc = "saved"] @@ [raised |-> FALSE, id |-> r.id]
    /\ UNCHANGED <<eventLoop, aiCall, classifier, lastRun, lastPass, conn, pool, connLog, unified, enrich>>

\* CompetitorDB.save_competitor on the scraped data
TracxnSave ==
    /\ scraper.pc = "scraped" /\ scraper.src = "tracxn"
    /\ \E r \in {TX_save_competitor(competitors, scraper.data)} :
        /\ competitors' = r.table
        /\ scraper' = [scraper EXCEPT !.pc = "saved"] @@ [raised |-> r.raised, id |-> r.id]
    /\ UNCHANGED <<eventLoop, aiCall, news, classifier, lastRun, lastPass, conn, pool, connLog, unified,
                   enrich>>

NextExtract == ParsersVCScrape \/ TracxnScrape \/ ParsersVCSave \/ TracxnSave

SpecExtract == InitExtract /\ [][NextExtract]_vars

\* The totals the four captures of the examples stand for
ExampleTotals ==
    ("$1.5M" :> 1500000) @@ ("$2B" :> 2000000000) @@ ("750K" :> 750000) @@ ("500" :> 500)

(* C21: a captured funding amount with suffix K, M or B (any case) is      *)
(* multiplied by 1,000, 1,000,000 or 1,000,000,000 and one without suffix  *)
(* is kept: "$1.5M" gives 1,500,000, "$2B" 2,000,000,000, "750K" 750,000   *)
(* and "500" 500; a capture that is no number is treated as no match and   *)
(* never raises.  Violated: CompetitorDB's mapping calls float() on the    *)
(* capture outside any try statement, and "1.2.3" raises ValueError.       *)
C21_UnitExpansion ==
    /\ (scraper.pc \in {"scraped", "saved"} /\ scraper.src = "parsersvc") =>
            \A capture \in DOMAIN ExampleTotals :
                Contains(capture, scraper.body_text) =>
                    scraper.data.total_raised = Some(ExampleTotals[capture])
    /\ (scraper.pc = "saved" /\ scraper.src = "tracxn") =>
            /\ ~scraper.raised
            /\ \A capture \in DOMAIN ExampleTotals :
                    scraper.data.fundings.total_funding = capture =>
                        competitors[1].fundings_total = Some(ExampleTotals[capture])

(* C22: founded-year extraction accepts only years in                      *)
(* [1900, current_year + 1]: 1899 and current_year + 2 are rejected and    *)
(* the scan goes on with the next pattern, 2001 is accepted, and no        *)
(* founded_year outside the range is emitted by a scraper or written to a  *)
(* competitors row.  Violated: TracxnScraper takes the first four digits   *)
(* after "Founded" without any test, and CompetitorDB writes them.         *)
C22_FoundedYearInRange ==
    LET InRange(year) == 1900 <= year /\ year <= scraper.current_year + 1
        emitted == scraper.data.founded_year
        stored == competitors[1].founded_year
    IN  /\ (scraper.pc \in {"scraped", "saved"} /\ emitted # "") => InRange(DecimalValue(emitted))
        /\ (scraper.pc \in {"scraped", "saved"}
                /\ Contains("Founded: 1899 Since 2001", scraper.body_text)) => emitted = "2001"
        /\ (scraper.pc = "saved" /\ stored # None) => InRange(DecimalValue(stored[1]))

(* C23: whenever an enrichment writes employee_qty, the value written is   *)
(* an integer: floor((low + high) / 2) for an extracted range "low-high"   *)
(* and the number itself for a single integer; an extracted string that is *)
(* neither is written as nothing.  Violated: CompetitorDB writes the       *)
(* extracted string itself, "10 - 50" or "50-100".                         *)
C23_EmployeeQtyIsInteger ==
    (scraper.pc = "saved" /\ scraper.id # 0 /\ ~scraper.raised) =>
        LET extracted == IF scraper.src = "parsersvc" THEN scraper.data.employees
                         ELSE scraper.data.employee_count
            parts == split(extracted, "-")
            IsInt(s) == AllDigits(strip(s))
            stored == competitors[1].employee_qty
        IN  IF Len(parts) = 2 /\ IsInt(parts[1]) /\ IsInt(parts[2])
            THEN stored = Some(ToString((DecimalValue(strip(parts[1]))
                                         + DecimalValue(strip(parts[2]))) \div 2))
            ELSE IF IsInt(extracted) THEN stored = Some(ToString(DecimalValue(strip(extracted))))
            ELSE stored = None

----------------------------------------------------------------------------
(* The frame of competitors_news under the ingestion runs of SpecNews      *)

(* C24: no operation modifies or deletes an existing competitors_news row: *)
(* every step of an ingestion run, of any source, first run or rerun,      *)
(* leaves each row that was in the table in its place with its title,      *)
(* date, link, analysis, importance_grade and sentiment as they were.      *)
C24_RowsNeverChange ==
    [][/\ Len(news') >= Len(news)
       /\ \A i \in 1..Len(news) : news'[i] = news[i]]_vars

\* A list of articles has been run a second time over a table that holds
\* one of them already
C24_Witness ==
    /\ lastRun.src \in {"biometricupdate", "globenewswire", "parsersvc"}
    /\ lastRun.repeat /\ lastRun.before > 0
    /\ \E i \in 1..Len(news), k \in 1..Len(lastRun.articles) :
            news[i].link = lastRun.articles[k].url \/ news[i].title = lastRun.articles[k].title

----------------------------------------------------------------------------
(* Creation of competitors rows under the passes of SpecComp               *)

(* C25: a competitor is created once and then only updated: after any      *)
(* sequence of CompetitorDB.save_competitor calls the table holds no two   *)
(* rows for the same company name, the name taken as save_competitor       *)
(* validates it (stripped); and ParsersVCDataOperations.save_competitor    *)
(* inserts no row.  Violated: the existence check gets the stripped name   *)
(* and the INSERT the unstripped one, so " Zz" is inserted at every save.  *)
C25_CreatedOnce ==
    [][/\ lastPass'.op = "pv_save" => Len(competitors') = Len(competitors)
       /\ \A i, j \in 1..Len(competitors') :
              i # j => strip(competitors'[i].name) # strip(competitors'[j].name)]_vars

(* C26: ParsersVCDataOperations.save_competitor returns True only if a     *)
(* database write succeeded in the call: the competitor row was updated or *)
(* at least one press mention was inserted; when the update affects no row *)
(* or raises and no press mention is inserted it returns False.  Violated: *)
(* it returns success or bool(press_mentions), True for scraped mentions   *)
(* that were all skipped as duplicates.                                    *)
C26_TrueOnlyAfterWrite ==
    [][(lastPass'.op = "pv_save" /\ lastPass'.ok) =>
            (lastPass'.updated \/ Len(news') > Len(news))]_vars

----------------------------------------------------------------------------
(* SpecRetry: the retry loops of ParsersVCScraper.scrape_company,          *)
(* TracxnScraper.scrape_company and DuckDuckGo agent's _initialize_ddgs    *)
(* (src/ddgs.py).  One attempt is one step: it returns or it raises an     *)
(* Exception, as the environment decides.  scraper.log is history: the     *)
(* attempts and the sleeps in the order they were made.                    *)

\* max_retries is drawn from 0..MaxRetriesArg
MaxRetriesArg == 3

\* max_retries = 10 in _initialize_ddgs
ddgs_max_retries == 10

RECURSIVE Pow2(_)
Pow2(n) == IF n = 0 THEN 1 ELSE 2 * Pow2(n - 1)

\* The seconds _random_delay(3, 5) and _random_delay(3, 6) may sleep (the ends of
\* random.uniform's interval and one value between them)
RetryDelays(fn) == IF fn = "parsersvc" THEN {3, 4, 5} ELSE {3, 4, 6}

AttemptEvent(ok) == [kind |-> "attempt", ok |-> ok, seconds |-> 0]

SleepEvent(seconds) == [kind |-> "sleep", ok |-> FALSE, seconds |-> seconds]

\* A variant of the handler that sleeps after every failed attempt
DelayAfterFailure_Always(attempt, max_retries, seconds) == <<SleepEvent(seconds)>>

\* if attempt < max_retries: self._random_delay(...), with attempt already counted
DelayAfterFailure(attempt, max_retries, seconds) ==
    IF attempt < max_retries THEN <<SleepEvent(seconds)>> ELSE <<>>

InitRetry ==
    /\ \/ \E fn \in {"parsersvc", "tracxn"}, max_retries \in 0..MaxRetriesArg :
            scraper = [pc |-> "loop", fn |-> fn, max_retries |-> max_retries, attempt |-> 0,
                       log |-> <<>>, ret |-> "none"]
       \/ scraper = [pc |-> "loop", fn |-> "ddgs", max_retries |-> ddgs_max_retries,
                     attempt |-> 0, log |-> <<>>, ret |-> "none"]
    /\ competitors = <<>>
    /\ lastPass = NoPass
    /\ news = <<>>
    /\ classifier = NoAnalyzer
    /\ lastRun = [src |-> "none"]
    /\ IdleAI /\ IdleConn
    /\ eventLoop = [pc |-> "idle"]
    /\ unified = [pc |-> "idle"]
    /\ enrich = [pc |-> "idle"]

ScraperFrame ==
    UNCHANGED <<aiCall, news, classifier, lastRun, competitors, lastPass, conn, pool, connLog,
                unified, enrich, eventLoop>>

\* scrape_company: the body of the try statement ends without an exception and
\* the method returns company_data
ScrapeSucceeds ==
    /\ scraper.pc = "loop" /\ scraper.fn \in {"parsersvc", "tracxn"}
    /\ scraper.attempt < scraper.max_retries
    /\ scraper' = [scraper EXCEPT !.pc = "done",
                                  !.log = Append(@, AttemptEvent(TRUE)),
                                  !.ret = "company_data"]
    /\ ScraperFrame

\* scrape_company: the body raises; the handler counts the attempt and sleeps
\* when another attempt follows
ScrapeFails ==
    /\ scraper.pc = "loop" /\ scraper.fn \in {"parsersvc", "tracxn"}
    /\ scraper.attempt < scraper.max_retries
    /\ \E seconds \in RetryDelays(scraper.fn) :
        scraper' = [scraper EXCEPT
                        !.attempt = @ + 1,
                        !.log = Append(@, AttemptEvent(FALSE))
                                \o DelayAfterFailure(scraper.attempt + 1, scraper.max_retries,
                                                     seconds)]
    /\ ScraperFrame

\* scrape_company: the while condition is false; return None
ScrapeGivesUp ==
    /\ scraper.pc = "loop" /\ scraper.fn \in {"parsersvc", "tracxn"}
    /\ ~(scraper.attempt < scraper.max_retries)
    /\ scraper' = [scraper EXCEPT !.pc = "done", !.ret = "None"]
    /\ ScraperFrame

\* _initialize_ddgs: DDGS() returns
DdgsSucceeds ==
    /\ scraper.pc = "loop" /\ scraper.fn = "ddgs"
    /\ scraper.attempt < scraper.max_retries
    /\ scraper' = [scraper EXCEPT !.pc = "done",
                                  !.log = Append(@, AttemptEvent(TRUE)),
                                  !.ret = "DDGS"]
    /\ ScraperFrame

\* _initialize_ddgs: DDGS() raises; time.sleep(2 ** attempt) when
\* attempt < max_retries - 1, else raise
DdgsFails ==
    /\ scraper.pc = "loop" /\ scraper.fn = "ddgs"
    /\ scraper.attempt < scraper.max_retries
    /\ scraper' = IF scraper.attempt < scraper.max_retries - 1
                  THEN [scraper EXCEPT
                            !.attempt = @ + 1,
                            !.log = Append(@, AttemptEvent(FALSE))
                                    \o <<SleepEvent(Pow2(scraper.attempt))>>]
                  ELSE [scraper EXCEPT
                            !.pc = "done",
                            !.attempt = @ + 1,
                            !.log = Append(@, AttemptEvent(FALSE)),
                            !.ret = "raised"]
    /\ ScraperFrame

NextRetry == ScrapeSucceeds \/ ScrapeFails \/ ScrapeGivesUp \/ DdgsSucceeds \/ DdgsFails

\* Every attempt ends (the page loads are made with timeouts): the loop's
\* thread takes its next step
SpecRetry == InitRetry /\ [][NextRetry]_vars /\ WF_vars(NextRetry)

\* The places of the attempts in a log, and of the failed ones
Attempts(log) == {i \in 1..Len(log) : log[i].kind = "attempt"}

Failures(log) == {i \in Attempts(log) : ~log[i].ok}

\* What holds of a retry loop at every moment
RetryBounded ==
    LET log == scraper.log
        done == scraper.pc = "done"
    IN  /\ Cardinality(Attempts(log)) <= scraper.max_retries
        /\ \A i \in Attempts(log) : log[i].ok => (i = Len(log) /\ done)
        /\ \A i \in 1..Len(log) :
                log[i].kind = "sleep" =>
                    /\ i > 1 /\ i - 1 \in Failures(log)
                    /\ done => (i < Len(log) /\ i + 1 \in Attempts(log))
                    /\ scraper.fn = "ddgs" =>
                            log[i].seconds = Pow2(Cardinality({j \in Failures(log) : j < i}) - 1)
        /\ \A i \in Failures(log) :
                (done /\ i < Len(log)) => log[i + 1].kind = "sleep"
        /\ done =>
            IF \E i \in Attempts(log) : log[i].ok
            THEN scraper.ret = (IF scraper.fn = "ddgs" THEN "DDGS" ELSE "company_data")
            ELSE /\ Cardinality(Failures(log)) = Max(scraper.max_retries, 0)
                 /\ scraper.ret = (IF scraper.fn = "ddgs" THEN "raised" ELSE "None")

(* C27: retry loops are bounded and terminate: scrape_company (ParsersVC   *)
(* and Tracxn) makes at most max_retries attempts, returns the data of the *)
(* first attempt that succeeds without attempting again, sleeps only       *)
(* between attempts, and returns None after max_retries failed attempts;   *)
(* _initialize_ddgs makes at most 10 attempts, sleeps 2^k seconds after    *)
(* the k-th failure (k from 0) and re-raises after the 10th.               *)
C27_RetryLoopsTerminate ==
    /\ [](scraper.pc \in {"loop", "done"} => RetryBounded)
    /\ <>(scraper.pc = "done")

\* scrape_company gave up after max_retries failed attempts with a sleep between
\* them and none after the last
C27_Witness ==
    /\ scraper.pc = "done"
    /\ "fn" \in DOMAIN scraper
    /\ scraper.fn = "tracxn" /\ scraper.max_retries = 3 /\ scraper.ret = "None"
    /\ Len(scraper.log) = 5

----------------------------------------------------------------------------
(* SpecSearch: GlobeNewswireScraper.search_company_news                    *)
(* (services/globenewswire/scraper.py).  One step fetches one result page  *)
(* and runs the loop over its links; what a page holds and what becomes of *)
(* each link (scraped, old, no content, an exception) is the environment's *)
(* choice.  scraper.fetched is history: the result pages fetched.          *)

\* max_articles is drawn from 1..MaxArticlesArg
MaxArticlesArg == 3

\* max_pages = 10
max_pages == 10

\* A link of a result page: its href and what processing it leads to:
\* "article" (scraped and recent), "old" (the date beside the link is old),
\* "old_after" (the date on the article's page is old), "none"
\* (_scrape_full_article returns None), "raises" (an exception in the loop body)
Link(href, result) == [href |-> href, result |-> result]

NewsRelease(n) == "https://www.globenewswire.com/news-release/" \o n

\* The result pages the site may answer with
ResultPages ==
    { <<>>,
      << Link(NewsRelease("1"), "article"), Link(NewsRelease("2"), "article") >>,
      [i \in 1..5 |-> Link(NewsRelease("1"), "article")],
      << Link("/news-release/1", "article"), Link(NewsRelease("1"), "article"),
         Link(NewsRelease("2"), "old"), Link("news-release/9", "article"),
         Link(NewsRelease("2"), "old") >>,
      [i \in 1..5 |-> Link(NewsRelease("3"), "old")],
      [i \in 1..5 |-> Link(NewsRelease("3"), "none")],
      [i \in 1..5 |-> Link(NewsRelease("4"), "raises")],
      << Link(NewsRelease("2"), "article"), Link(NewsRelease("3"), "article"),
         Link(NewsRelease("4"), "article"), Link(NewsRelease("1"), "old_after"),
         Link(NewsRelease("3"), "article") >>,
      << Link(NewsRelease("4"), "article"), Link(NewsRelease("2"), "raises"),
         Link(NewsRelease("3"), "raises"), Link(NewsRelease("1"), "raises"),
         Link(NewsRelease("2"), "raises"), Link(NewsRelease("3"), "raises") >> }

\* The article URL of a link: an http URL as it is, a path with the site put
\* before it, "" for anything else (the link is skipped)
ArticleUrl(href) ==
    IF href # "" /\ StartsWith(href, "http") THEN href
    ELSE IF href # "" /\ StartsWith(href, "/") THEN "https://www.globenewswire.com" \o href
    ELSE ""

\* A variant of the test that never finds the URL
AlreadyProcessed_Never(articles, article_url) == FALSE

\* any(art['url'] == article_url for art in articles)
AlreadyProcessed(articles, article_url) ==
    \E i \in 1..Len(articles) : articles[i].url = article_url

RECURSIVE ProcessLinks(_, _, _, _, _)
\* for element in article_elements: ... ; [articles, found (articles_found_on_page),
\* processed (page_articles_processed)]
ProcessLinks(articles, article_elements, max_articles, found, processed) ==
    IF Len(article_elements) = 0 \/ Len(articles) >= max_articles
    THEN [articles |-> articles, found |-> found, processed |-> processed]
    ELSE LET element == article_elements[1]
             article_url == ArticleUrl(element.href)
             rest == Tail(article_elements)
         IN  IF element.result = "raises" \/ article_url = ""
                \/ AlreadyProcessed(articles, article_url)
                \/ element.result \in {"old", "old_after"}
             THEN ProcessLinks(articles, rest, max_articles, found, processed)
             ELSE IF element.result = "none"
             THEN ProcessLinks(articles, rest, max_articles, found, processed + 1)
             ELSE ProcessLinks(Append(articles, [url |-> article_url]), rest, max_articles,
                               found + 1, processed + 2)

InitSearch ==
    /\ \E max_articles \in 1..MaxArticlesArg :
            scraper = [pc |-> "loop", max_articles |-> max_articles, page_num |-> 1,
                       articles |-> <<>>, fetched |-> 0, ret |-> <<>>]
    /\ competitors = <<>>
    /\ lastPass = NoPass
    /\ news = <<>>
    /\ classifier = NoAnalyzer
    /\ lastRun = [src |-> "none"]
    /\ IdleAI /\ IdleConn
    /\ eventLoop = [pc |-> "idle"]
    /\ unified = [pc |-> "idle"]
    /\ enrich = [pc |-> "idle"]

\* while len(articles) < max_articles and page_num <= max_pages
SearchGoesOn ==
    /\ scraper.pc = "loop"
    /\ Len(scraper.articles) < scraper.max_articles
    /\ scraper.page_num <= max_pages

\* One pass of the while loop in which the page is fetched and its links are
\* processed: the loop ends when nothing was found among links that were scraped,
\* or the page has fewer than 5 links, or it has none at all
SearchPage ==
    /\ SearchGoesOn
    /\ \E article_elements \in ResultPages :
        \E r \in {ProcessLinks(scraper.articles, article_elements, scraper.max_articles, 0, 0)} :
            scraper' =
                IF Len(article_elements) = 0
                   \/ (r.found = 0 /\ r.processed > 0)
                   \/ Len(article_elements) < 5
                THEN [scraper EXCEPT !.pc = "done", !.articles = r.articles,
                                     !.fetched = @ + 1, !.ret = r.articles]
                ELSE [scraper EXCEPT !.articles = r.articles, !.fetched = @ + 1,
                                     !.page_num = @ + 1]
    /\ ScraperFrame

\* One pass in which page.goto raises (the handler of the method returns the
\* articles) or, on page 1, no link shows up within the timeout (break)
SearchPageFails ==
    /\ SearchGoesOn
    /\ scraper' = [scraper EXCEPT !.pc = "done", !.fetched = @ + 1, !.ret = scraper.articles]
    /\ ScraperFrame

\* The while condition is false: return articles
SearchReturns ==
    /\ scraper.pc = "loop" /\ ~SearchGoesOn
    /\ scraper' = [scraper EXCEPT !.pc = "done", !.ret = scraper.articles]
    /\ ScraperFrame

NextSearch == SearchPage \/ SearchPageFails \/ SearchReturns

\* Every await of the method ends (the page loads carry timeouts)
SpecSearch == InitSearch /\ [][NextSearch]_vars /\ WF_vars(NextSearch)

(* C29: search_company_news always terminates after fetching at most 10    *)
(* result pages, returns at most max_articles articles, and the returned   *)
(* articles have pairwise distinct URLs, whatever the result pages hold.   *)
C29_SearchTerminates ==
    /\ [](scraper.pc \in {"loop", "done"} =>
            /\ scraper.fetched <= 10
            /\ Len(scraper.ret) <= scraper.max_articles
            /\ \A i, j \in 1..Len(scraper.ret) :
                    i # j => scraper.ret[i].url # scraper.ret[j].url)
    /\ <>(scraper.pc = "done")

\* Ten result pages were fetched, links met again on the way, and fewer than
\* max_articles articles came back
C29_Witness ==
    /\ scraper.pc = "done"
    /\ "fetched" \in DOMAIN scraper
    /\ scraper.fetched = 10
    /\ Len(scraper.ret) = 2 /\ scraper.max_articles = 3

----------------------------------------------------------------------------
(* CompetitorDB.save_competitors_batch against save_competitor (SpecComp)  *)

(* C30: save_competitors_batch has, for each item, the effect of           *)
(* save_competitor on the competitors table: an item with a name is        *)
(* inserted when no row has the name and updates the row otherwise, and is *)
(* counted in 'inserted' or 'updated' accordingly; and inserted + updated  *)
(* + failed = total.  Violated: every item with a name ends in the loop's  *)
(* handler (self.db_config does not exist) and is counted failed; the      *)
(* table is left as it was.                                                *)
C30_BatchAsSaveCompetitor ==
    lastPass.op = "tx_batch" =>
        LET each == SaveEach(lastPass.table_before, lastPass.scraped)
            stats == lastPass.stats
        IN  /\ competitors = each.table
            /\ stats.inserted = each.inserted
            /\ stats.updated = each.updated
            /\ stats.inserted + stats.updated + stats.failed = stats.total
            /\ stats.total = Len(lastPass.scraped)

----------------------------------------------------------------------------
(* SpecParallel: enrich_all_sources in parallel mode.  asyncio.gather runs *)
(* the source pipelines as tasks of one event loop, on one thread: a task  *)
(* runs from one await to the next, and another task runs only while the   *)
(* first is suspended at an await.  Every pipeline handles one company:    *)
(* it scrapes, then saves the articles one by one (duplicate check, then   *)
(* insert), then pauses.  A step of the model is one statement.            *)

\* The company the pipelines are run for
ParallelCompany == "Acme Corp"

\* What a scraper returns for the company
ParallelArticles ==
    {AcmeArticle,
     [title |-> "Funding announced", content |-> RelevantContent, url |-> "u9",
      date |-> "Jan 7, 2024"]}

\* The sources given to gather, in the order of the tasks
ParallelSources == <<"parsersvc", "biometricupdate", "globenewswire">>

\* The positions at which a pipeline is suspended at an await, so that the
\* event loop may run another task: the two asynchronous pipelines await the
\* scraper and the pause after the company; CompetitorEnrichmentService is
\* called without an await and has none.  No position inside a save operation
\* is in the set
Awaits_InsideSave(source, pc) ==
    source \in {"biometricupdate", "globenewswire"} /\ pc \in {"scrape", "insert", "sleep"}

Awaits(source, pc) ==
    source \in {"biometricupdate", "globenewswire"} /\ pc \in {"scrape", "sleep"}

\* One article through a source's save operation on the table as it is:
\* [table, saved, steps]
SaveOne(source, table, cls, comps, company_name, article) ==
    CASE source = "biometricupdate" ->
           BU_save_article(table, cls, BU_get_competitor_by_name(comps, company_name),
                           comps[BU_get_competitor_by_name(comps, company_name)].name, article)
      [] source = "globenewswire" ->
           GN_save_article(table, cls, GN_get_competitor_by_name(comps, company_name),
                           article @@ [competitor_name |-> company_name])
      [] source = "parsersvc" ->
           PV_save_mention(table, cls,
                           FirstMatch({i \in 1..Len(comps) : comps[i].name = company_name}),
                           company_name, article)

\* A task before its first step
NewTask(source) ==
    [source |-> source, pc |-> "start", articles |-> <<>>, k |-> 0, row |-> <<>>]

InitParallel ==
    /\ eventLoop = [running |-> 0, writer |-> 0,
                    task |-> [t \in 1..Len(ParallelSources) |-> NewTask(ParallelSources[t])]]
    /\ news = <<>>
    /\ competitors = StepCompetitors
    /\ classifier \in {cls \in StepClassifiers : cls.resp.text \in {"", RespRelevantText}}
    /\ lastRun = [src |-> "none"]
    /\ lastPass = [op |-> "none"]
    /\ IdleAI /\ IdleConn
    /\ unified = [pc |-> "idle"]
    /\ enrich = [pc |-> "idle"]
    /\ scraper = [pc |-> "idle"]

\* The event loop lets task t take its next step: t is the task that runs, or
\* no task runs and t is new or its await is over
MayStep(t) ==
    \/ eventLoop.running = t
    \/ /\ eventLoop.running = 0
       /\ \/ eventLoop.task[t].pc = "start"
          \/ Awaits(eventLoop.task[t].source, eventLoop.task[t].pc)

\* The task that runs once t has reached position pc
RunningAt(t, pc) ==
    IF pc = "done" \/ Awaits(eventLoop.task[t].source, pc) THEN 0 ELSE t

\* The position after the save operation: the pause after the company (an
\* await) in the asynchronous pipelines, the return in the other
AfterSave(source) == IF source = "parsersvc" THEN "done" ELSE "sleep"

\* The position after article k of task t
AfterArticle(t, k) ==
    IF k < Len(eventLoop.task[t].articles) THEN "check"
    ELSE AfterSave(eventLoop.task[t].source)

ParallelFrame ==
    UNCHANGED <<aiCall, classifier, lastRun, competitors, lastPass, conn, pool, connLog,
                unified, enrich, scraper>>

\* The pipeline starts and calls its scraper
TaskStarts ==
    \E t \in DOMAIN eventLoop.task :
        /\ eventLoop.task[t].pc = "start"
        /\ MayStep(t)
        /\ eventLoop' = [eventLoop EXCEPT !.task[t].pc = "scrape",
                                          !.running = RunningAt(t, "scrape")]
        /\ UNCHANGED news
        /\ ParallelFrame

\* The scraper returns its articles; with none the save operation is not called
ScrapeReturns ==
    \E t \in DOMAIN eventLoop.task, articles \in ListsUpTo(ParallelArticles, 2) :
        /\ eventLoop.task[t].pc = "scrape"
        /\ MayStep(t)
        /\ \E pc \in {IF Len(articles) = 0 THEN AfterSave(eventLoop.task[t].source)
                      ELSE "check"} :
            eventLoop' = [eventLoop EXCEPT !.task[t].pc = pc,
                                           !.task[t].articles = articles,
                                           !.task[t].k = 1,
                                           !.running = RunningAt(t, pc)]
        /\ UNCHANGED news
        /\ ParallelFrame

\* The save operation up to the INSERT statement for article k: the analysis
\* and the duplicate check; a skipped article ends here
DuplicateCheck ==
    \E t \in DOMAIN eventLoop.task :
        /\ eventLoop.task[t].pc = "check"
        /\ MayStep(t)
        /\ \E one \in {SaveOne(eventLoop.task[t].source, news, classifier, competitors,
                               ParallelCompany,
                               eventLoop.task[t].articles[eventLoop.task[t].k])} :
            \E pc \in {IF one.saved THEN "insert"
                       ELSE AfterArticle(t, eventLoop.task[t].k)} :
                eventLoop' =
                    [eventLoop EXCEPT
                        !.task[t].pc = pc,
                        !.task[t].k = IF one.saved THEN @ ELSE @ + 1,
                        !.task[t].row = IF one.saved THEN <<one.table[Len(one.table)]>>
                                        ELSE <<>>,
                        !.running = RunningAt(t, pc)]
        /\ UNCHANGED news
        /\ ParallelFrame

\* The INSERT statement for article k and the commit
Insert ==
    \E t \in DOMAIN eventLoop.task :
        /\ eventLoop.task[t].pc = "insert"
        /\ MayStep(t)
        /\ news' = news \o eventLoop.task[t].row
        /\ \E pc \in {AfterArticle(t, eventLoop.task[t].k)} :
            eventLoop' = [eventLoop EXCEPT !.task[t].pc = pc,
                                           !.task[t].k = @ + 1,
                                           !.task[t].row = <<>>,
                                           !.writer = t,
                                           !.running = RunningAt(t, pc)]
        /\ ParallelFrame

\* The pause after the company is over and the pipeline returns
SleepReturns ==
    \E t \in DOMAIN eventLoop.task :
        /\ eventLoop.task[t].pc = "sleep"
        /\ MayStep(t)
        /\ eventLoop' = [eventLoop EXCEPT !.task[t].pc = "done",
                                          !.running = RunningAt(t, "done")]
        /\ UNCHANGED news
        /\ ParallelFrame

NextParallel == TaskStarts \/ ScrapeReturns \/ DuplicateCheck \/ Insert \/ SleepReturns

SpecParallel == InitParallel /\ [][NextParallel]_vars

\* The article task t has checked and not yet inserted would still pass the
\* duplicate check on the table as it is now
CheckStillHolds(t) ==
    SaveOne(eventLoop.task[t].source, news, classifier, competitors, ParallelCompany,
            eventLoop.task[t].articles[eventLoop.task[t].k]).saved

(* C28: in parallel mode no other pipeline's database write comes between  *)
(* an article's duplicate check and its insert: while a task is between    *)
(* the two, the table is the one it checked (the check would give the same *)
(* answer), that task is the one that runs, and the next write to          *)
(* competitors_news is its own.                                            *)
C28_CheckThenInsertAtomic ==
    /\ [](\A t \in DOMAIN eventLoop.task :
             eventLoop.task[t].pc = "insert"
                 => (eventLoop.running = t /\ CheckStillHolds(t)))
    /\ [][\A t \in DOMAIN eventLoop.task :
             (eventLoop.task[t].pc = "insert" /\ news' # news) => eventLoop'.writer = t]_vars

\* A task is between its duplicate check and its insert after another
\* pipeline has written a row, while a third pipeline is suspended in its
\* scraper and has its save operation still to come
C28_Witness ==
    \E t, u, v \in DOMAIN eventLoop.task :
        /\ eventLoop.task[t].pc = "insert"
        /\ eventLoop.writer = u /\ u # t
        /\ Len(news) > 0
        /\ v # t /\ eventLoop.task[v].pc = "scrape"
====
